---- MODULE Spec2Model ----
(***************************************************************************)
(* GridIncremental: the sparse Grid, the GameState aggregate and the       *)
(* systems that mutate it (ContractSystem, ShopSystem, AutoPainterSystem,  *)
(* SaveManager), as a state machine.  Event dispatch is synchronous and    *)
(* run to completion, so every public operation is one atomic action that  *)
(* includes the listeners it triggers.                                     *)
(*                                                                         *)
(* Left out of the state: stats.totalCellsFilled, stats.totalMoneyEarned,  *)
(* stats.playTime, a contract's id / rankName / createdAt, and            *)
(* localStorage (a saved document is handed from save to load directly).   *)
(* Timers are punctual: a callback that is due runs before time passes.    *)
(***************************************************************************)
EXTENDS Integers, Sequences, FiniteSets, TLC

\* ------------------------------------------------------------------ values
NULL == "null"                      \* JS null as a cell / pattern colour
NoContract == [none |-> TRUE]       \* activeContract === null
None == <<>>                        \* an absent (undefined) document field
Some(v) == <<v>>                    \* a present document field

maxHistory == 50
StartSize == 4

\* ------------------------------------------------------------------ bounds
MaxEdits == 2          \* single edits are offered below, batches up to, this history length
MaxMoney == 52         \* addMoney is not offered beyond this balance
MaxCompleted == 1      \* contracts are not offered after this many completions
MaxGridLevel == 2      \* expansions are not offered beyond this gridLevel
MaxShopMoney == 150    \* the shop session earns no money beyond this balance
RandSteps == 4         \* Math.random() is offered as (k + 1/2) / RandSteps, k below RandSteps
ClockStep == 50        \* time passes by at most this many milliseconds at once
MaxClock == 800        \* the painting session ends this long after the page load
MaxStartClock == 1300  \* the auto-start session ends this long after the page load
FarStep == 10000       \* in the timer session time passes by at most this at once
MaxFarClock == 30500   \* the timer session ends this long after the page load
MaxStrokes == 3        \* cells beside the pattern are edited below this history length

\* ------------------------------------------------------------------ inputs
XIn == {-1, 0, 4}                   \* x arguments offered to setCell (y is 0)
ColorIn == {"black", NULL}          \* colour arguments offered to setCell
SizeIn == {2, 4, 6}                 \* width / height arguments of expandGrid
AmountIn == {-1, 0, 2, 50}          \* amounts of addMoney / spendMoney

\* ------------------------------------------------------------------ state
VARIABLES
    width, height, cells, history,                 \* Grid
    gridLevel, money, unlockedColors, selectedColor,
    upgrades, automationEnabled,
    activeContract, completedContracts, stats,     \* GameState
    selectedRankLevel,                             \* ContractSystem
    intervalId, lastPaintTime,                     \* AutoPainterSystem
    autoSaveInterval,                              \* SaveManager
    isRunning,                                     \* Game
    now, hidden, timers, timeouts,                 \* Date.now(), document.hidden,
                                                   \* setInterval, setTimeout
    waiting,                                       \* since when a painter has had work
    op, ret, events, observed, preCells, refHistory \* observation of the last call

gridVars == <<width, height, cells, history>>
stateVars == <<gridLevel, money, unlockedColors, selectedColor, upgrades,
               automationEnabled, activeContract, completedContracts, stats>>
obsVars == <<op, ret, events, observed, preCells, refHistory>>
sysVars == <<selectedRankLevel, intervalId, lastPaintTime, autoSaveInterval,
             isRunning, now, hidden, timers, timeouts, waiting>>
vars == <<gridVars, stateVars, sysVars, obsVars>>

\* ------------------------------------------------------------ small helpers
Min(a, b) == IF a < b THEN a ELSE b
Max(a, b) == IF a > b THEN a ELSE b
Last(s) == s[Len(s)]
Front(s) == SubSeq(s, 1, Len(s) - 1)
LastN(n, s) == IF Len(s) <= n THEN s ELSE SubSeq(s, Len(s) - n + 1, Len(s))
EmptyCells == [k \in {} |-> NULL]

\* ==================================================================== Grid
\* A grid value: width, height, the sparse Map "x,y" -> colour (as a function
\* on the stored keys <<x, y>>) and the undo history.

IsValid(g, x, y) == x >= 0 /\ x < g.width /\ y >= 0 /\ y < g.height

GetCell(g, x, y) ==
    IF ~IsValid(g, x, y) THEN NULL
    ELSE IF <<x, y>> \in DOMAIN g.cells THEN g.cells[<<x, y>>] ELSE NULL

\* cells.get(key) || null
StoredAt(c, k) == IF k \in DOMAIN c THEN c[k] ELSE NULL

\* if (color === null) cells.delete(key) else cells.set(key, color)
PutCell(c, k, color) ==
    IF color = NULL
    THEN [kk \in DOMAIN c \ {k} |-> c[kk]]
    ELSE [kk \in DOMAIN c \cup {k} |-> IF kk = k THEN color ELSE c[kk]]

\* history.push(e); if (history.length > maxHistory) history.shift()
PushEvictNewest(h, e) ==
    IF Len(h) >= maxHistory THEN h ELSE Append(h, e)
PushHistory(h, e) ==
    LET h1 == Append(h, e)
    IN IF Len(h1) > maxHistory THEN Tail(h1) ELSE h1

\* if (history.length > maxHistory) history.splice(0, length - maxHistory)
TrimHistory(h) ==
    IF Len(h) > maxHistory THEN SubSeq(h, Len(h) - maxHistory + 1, Len(h)) ELSE h

\* Grid.setCell: the grid afterwards, the return value and the event emitted
GridSetCell(g, x, y, color) ==
    LET key == <<x, y>>
        oldColor == StoredAt(g.cells, key)
    IN IF ~IsValid(g, x, y) \/ oldColor = color
       THEN [grid |-> g, ret |-> FALSE, emitted |-> <<>>]
       ELSE [grid |-> [g EXCEPT
                         !.history = PushHistory(@, [x |-> x, y |-> y,
                                        oldColor |-> oldColor, newColor |-> color]),
                         !.cells = PutCell(@, key, color)],
             ret |-> TRUE,
             emitted |-> <<[name |-> "cellChanged", x |-> x, y |-> y,
                            color |-> color, oldColor |-> oldColor]>>]

\* the loop of Grid.setCells over the batch: grid and actualChanges so far
RECURSIVE SetCellsLoop(_, _, _)
SetCellsLoop(g, changes, actual) ==
    IF changes = <<>> THEN [grid |-> g, actual |-> actual]
    ELSE LET ch == Head(changes)
             key == <<ch.x, ch.y>>
             oldColor == StoredAt(g.cells, key)
         IN IF ~IsValid(g, ch.x, ch.y) \/ oldColor = ch.color
            THEN SetCellsLoop(g, Tail(changes), actual)
            ELSE SetCellsLoop(
                   [g EXCEPT !.history = Append(@, [x |-> ch.x, y |-> ch.y,
                                     oldColor |-> oldColor, newColor |-> ch.color]),
                             !.cells = PutCell(@, key, ch.color)],
                   Tail(changes),
                   Append(actual, [x |-> ch.x, y |-> ch.y, color |-> ch.color,
                                   oldColor |-> oldColor]))

\* Grid.setCells
GridSetCells(g, changes) ==
    LET r == SetCellsLoop(g, changes, <<>>)
        g1 == [r.grid EXCEPT !.history = TrimHistory(@)]
    IN [grid |-> g1, ret |-> Len(r.actual),
        emitted |-> IF Len(r.actual) > 0
                    THEN <<[name |-> "cellsChanged", changes |-> r.actual]>>
                    ELSE <<>>]

\* Grid.undo
GridUndoNoRestore(g) ==
    IF Len(g.history) = 0
    THEN [grid |-> g, ret |-> FALSE, emitted |-> <<>>]
    ELSE LET e == Last(g.history)
         IN [grid |-> [g EXCEPT !.history = Front(@)],
             ret |-> TRUE,
             emitted |-> <<[name |-> "cellChanged", x |-> e.x, y |-> e.y,
                            color |-> e.oldColor]>>]
GridUndo(g) ==
    IF Len(g.history) = 0
    THEN [grid |-> g, ret |-> FALSE, emitted |-> <<>>]
    ELSE LET e == Last(g.history)
         IN [grid |-> [g EXCEPT !.history = Front(@),
                                !.cells = PutCell(@, <<e.x, e.y>>, e.oldColor)],
             ret |-> TRUE,
             emitted |-> <<[name |-> "cellChanged", x |-> e.x, y |-> e.y,
                            color |-> e.oldColor]>>]

\* Grid.expand
GridExpandKeepHistory(g, newWidth, newHeight) ==
    IF newWidth < g.width \/ newHeight < g.height
    THEN [grid |-> g, ret |-> FALSE, emitted |-> <<>>]
    ELSE [grid |-> [g EXCEPT !.width = newWidth, !.height = newHeight],
          ret |-> TRUE,
          emitted |-> <<[name |-> "gridResized", width |-> newWidth,
                         height |-> newHeight]>>]
GridExpand(g, newWidth, newHeight) ==
    IF newWidth < g.width \/ newHeight < g.height
    THEN [grid |-> g, ret |-> FALSE, emitted |-> <<>>]
    ELSE [grid |-> [g EXCEPT !.width = newWidth, !.height = newHeight,
                             !.history = <<>>],
          ret |-> TRUE,
          emitted |-> <<[name |-> "gridResized", width |-> newWidth,
                         height |-> newHeight]>>]

\* Grid.clear
GridClear(g) ==
    IF Cardinality(DOMAIN g.cells) = 0
    THEN [grid |-> g, emitted |-> <<>>]
    ELSE [grid |-> [g EXCEPT !.cells = EmptyCells, !.history = <<>>],
          emitted |-> <<[name |-> "gridCleared"]>>]

\* =============================================================== GameState
\* A game value s: the fields of GameState (s.grid is its Grid), plus what the
\* call in progress has emitted so far (s.events) and what the UI subscriber
\* has seen at each cell event delivered to it (s.observed).

\* pattern[y]?.[x] ?? null   (pattern: rows of colours, 0-based in the source)
PatternAt(pattern, x, y) ==
    IF y >= 0 /\ y < Len(pattern) /\ x >= 0 /\ x < Len(pattern[y + 1])
    THEN pattern[y + 1][x + 1]
    ELSE NULL

\* the grid holds exactly the pattern: at every grid coordinate the cell is
\* the pattern's entry (empty where the pattern is empty or has no entry)
ExactMatch(g, pattern) ==
    \A y \in 0..(g.height - 1) : \A x \in 0..(g.width - 1) :
        GetCell(g, x, y) = PatternAt(pattern, x, y)

\* this.emit(name, payload) on the GameState bus
GsEmit(s, e) == [s EXCEPT !.events = Append(@, e)]

\* UIManager's cellChanged / cellsChanged subscriber (updateContractProgress)
\* reads activeContract and the grid at the moment the event reaches it:
\* whether a contract is active, whether the grid is exactly its pattern, how
\* many cells are filled where the pattern is empty (extra) and how many
\* pattern cells do not hold their colour yet (missing)
Observe(s) ==
    LET active == s.activeContract # NoContract
        g == s.grid
        coords == (0..(g.width - 1)) \X (0..(g.height - 1))
        pat(xy) == PatternAt(s.activeContract.pattern, xy[1], xy[2])
    IN [s EXCEPT !.observed = Append(@,
        [active |-> active,
         matches |-> active /\ ExactMatch(g, s.activeContract.pattern),
         extra |-> IF active
                   THEN Cardinality({xy \in coords :
                            pat(xy) = NULL /\ GetCell(g, xy[1], xy[2]) # NULL})
                   ELSE 0,
         missing |-> IF active
                     THEN Cardinality({xy \in coords :
                              pat(xy) # NULL /\ GetCell(g, xy[1], xy[2]) # pat(xy)})
                     ELSE 0])]

\* GameState.addMoney
AddMoney(s, amount) ==
    IF amount <= 0 THEN [s |-> s, ret |-> FALSE]
    ELSE [s |-> GsEmit([s EXCEPT !.money = @ + amount],
                       [name |-> "moneyChanged", delta |-> amount]),
          ret |-> TRUE]

\* GameState.spendMoney
SpendMoney(s, amount) ==
    IF amount <= 0 \/ s.money < amount THEN [s |-> s, ret |-> FALSE]
    ELSE [s |-> GsEmit([s EXCEPT !.money = @ - amount],
                       [name |-> "moneyChanged", delta |-> 0 - amount]),
          ret |-> TRUE]

\* GameState.unlockColor
unlockColor(s, colorId) ==
    IF colorId \in s.unlockedColors THEN [s |-> s, ret |-> FALSE]
    ELSE [s |-> GsEmit([s EXCEPT !.unlockedColors = @ \cup {colorId}],
                       [name |-> "colorUnlocked", colorId |-> colorId]),
          ret |-> TRUE]

\* GameState.hasColor
hasColor(s, colorId) == colorId \in s.unlockedColors

\* GameState.selectColor
selectColor(s, colorId) ==
    IF colorId \notin s.unlockedColors THEN [s |-> s, ret |-> FALSE]
    ELSE [s |-> GsEmit([s EXCEPT !.selectedColor = colorId],
                       [name |-> "colorSelected", colorId |-> colorId]),
          ret |-> TRUE]

\* the grid listeners of the GameState constructor that only forward
ForwardGridEvents(s, emitted) ==
    [s EXCEPT !.events = @ \o emitted]

\* GameState.completeActiveContract
CompleteKeepGrid(s) ==
    IF s.activeContract = NoContract THEN s
    ELSE LET contract == s.activeContract
             s1 == AddMoney(s, contract.reward).s
             s2 == [s1 EXCEPT !.activeContract = NoContract,
                              !.completedContracts = @ + 1,
                              !.stats.totalContractsCompleted = @ + 1]
         IN GsEmit(s2, [name |-> "contractCompleted", contract |-> contract])
CompleteActiveContract(s) ==
    IF s.activeContract = NoContract THEN s
    ELSE LET contract == s.activeContract
             s1 == AddMoney(s, contract.reward).s
             s2 == [s1 EXCEPT !.activeContract = NoContract,
                              !.completedContracts = @ + 1,
                              !.stats.totalContractsCompleted = @ + 1]
             c == GridClear(s2.grid)
             s3 == ForwardGridEvents([s2 EXCEPT !.grid = c.grid], c.emitted)
         IN GsEmit(s3, [name |-> "contractCompleted", contract |-> contract])

\* the inner loop of checkContractCompletion over one row
RECURSIVE CheckRow(_, _, _, _, _, _)
CheckRow(g, pattern, y, x, allMatch, anyWrong) ==
    IF x >= g.width THEN [allMatch |-> allMatch, anyWrong |-> anyWrong]
    ELSE LET expected == PatternAt(pattern, x, y)
             actual == GetCell(g, x, y)
         IN IF expected # actual
            THEN CheckRow(g, pattern, y, x + 1, FALSE,
                          anyWrong \/ (expected = NULL /\ actual # NULL))
            ELSE CheckRow(g, pattern, y, x + 1, allMatch, anyWrong)

\* the outer loop, with its break once a wrongly filled cell was seen
RECURSIVE CheckRows(_, _, _, _, _)
CheckRows(g, pattern, y, allMatch, anyWrong) ==
    IF y >= g.height THEN allMatch
    ELSE LET r == CheckRow(g, pattern, y, 0, allMatch, anyWrong)
         IN IF ~r.allMatch /\ r.anyWrong THEN r.allMatch
            ELSE CheckRows(g, pattern, y + 1, r.allMatch, r.anyWrong)

\* allMatch as checkContractCompletion computes it
AllMatchIgnoringExtra(g, pattern) ==
    \A y \in 0..(g.height - 1) : \A x \in 0..(g.width - 1) :
        PatternAt(pattern, x, y) # NULL
            => GetCell(g, x, y) = PatternAt(pattern, x, y)
AllMatch(g, pattern) == CheckRows(g, pattern, 0, TRUE, FALSE)

\* GameState.checkContractCompletion
CheckContractCompletion(s) ==
    IF s.activeContract = NoContract THEN s
    ELSE IF AllMatch(s.grid, s.activeContract.pattern)
         THEN CompleteActiveContract(s)
         ELSE s

\* the 'cellChanged' / 'cellsChanged' listener of the GameState constructor:
\* forward the event, then re-evaluate completion
OnCellEvent(s, e) == CheckContractCompletion(Observe(GsEmit(s, e)))

\* a Grid method has run on s.grid with result r: install the grid and run
\* the GameState listeners on what it emitted (every Grid method emits last)
AfterGridCall(s, r) ==
    LET s1 == [s EXCEPT !.grid = r.grid]
    IN IF r.emitted = <<>> THEN s1
       ELSE IF r.emitted[1].name \in {"cellChanged", "cellsChanged"}
            THEN OnCellEvent(s1, r.emitted[1])
            ELSE ForwardGridEvents(s1, r.emitted)

\* GameState.expandGrid
ExpandGrid(s, newWidth, newHeight) ==
    LET r == GridExpand(s.grid, newWidth, newHeight)
        s1 == AfterGridCall(s, r)
    IN IF r.ret
       THEN [s |-> GsEmit([s1 EXCEPT !.gridLevel = @ + 1],
                          [name |-> "gridExpanded", width |-> newWidth,
                           height |-> newHeight, level |-> s1.gridLevel + 1]),
             ret |-> TRUE]
       ELSE [s |-> s1, ret |-> FALSE]

\* GameState.setActiveContract
SetActiveContractKeepGrid(s, contract) ==
    LET s1 == [s EXCEPT !.activeContract = contract]
    IN GsEmit(s1, [name |-> "contractStarted", contract |-> contract])
SetActiveContract(s, contract) ==
    LET s1 == [s EXCEPT !.activeContract = contract]
        s2 == AfterGridCall(s1, GridClear(s1.grid))
    IN GsEmit(s2, [name |-> "contractStarted", contract |-> contract])

\* GameState.clearContract
ClearContract(s) ==
    LET contract == s.activeContract
        s1 == [s EXCEPT !.activeContract = NoContract]
        s2 == AfterGridCall(s1, GridClear(s1.grid))
    IN GsEmit(s2, [name |-> "contractCleared", contract |-> contract])

\* ========================================================= Number arithmetic
\* A JS Number (IEEE-754 double) that is not negative: the value is m * 2^e,
\* with the integer m written in limbs of 15 binary digits, lowest first, and
\* no more than 53 binary digits after every operation.

LimbBase == 2^15

RECURSIVE Limbs(_)
Limbs(n) == IF n = 0 THEN <<>> ELSE <<n % LimbBase>> \o Limbs(n \div LimbBase)
RECURSIVE ToInt(_)
ToInt(m) == IF m = <<>> THEN 0 ELSE m[1] + LimbBase * ToInt(Tail(m))
RECURSIVE Trim(_)
Trim(m) == IF m # <<>> /\ m[Len(m)] = 0 THEN Trim(Front(m)) ELSE m
LimbAt(m, i) == IF i >= 1 /\ i <= Len(m) THEN m[i] ELSE 0

RECURSIVE BitLenInt(_)
BitLenInt(n) == IF n = 0 THEN 0 ELSE 1 + BitLenInt(n \div 2)
BitLen(m) == IF m = <<>> THEN 0 ELSE 15 * (Len(m) - 1) + BitLenInt(m[Len(m)])
BitOf(m, k) == (LimbAt(m, (k \div 15) + 1) \div 2^(k % 15)) % 2

\* floor(m / 2^r) and m * 2^k
ShiftRight(m, r) ==
    LET q == r \div 15
        s == r % 15
    IN IF Len(m) <= q THEN <<>>
       ELSE Trim([i \in 1..(Len(m) - q) |->
                    (m[i + q] \div 2^s) + (LimbAt(m, i + q + 1) % 2^s) * 2^(15 - s)])
ShiftLeft(m, k) ==
    LET q == k \div 15
        s == k % 15
    IN Trim([i \in 1..(Len(m) + q + 1) |->
                ((LimbAt(m, i - q) * 2^s) % LimbBase)
                + (LimbAt(m, i - q - 1) \div 2^(15 - s))])
\* m has no binary digit below position r
LowBitsZero(m, r) ==
    /\ \A i \in 1..Min(Len(m), r \div 15) : m[i] = 0
    /\ LimbAt(m, (r \div 15) + 1) % 2^(r % 15) = 0

\* the exact sum and the exact product of two integers in limbs
RECURSIVE AddFrom(_, _, _, _)
AddFrom(a, b, i, carry) ==
    IF i > Len(a) /\ i > Len(b) THEN (IF carry = 0 THEN <<>> ELSE <<carry>>)
    ELSE LET n == LimbAt(a, i) + LimbAt(b, i) + carry
         IN <<n % LimbBase>> \o AddFrom(a, b, i + 1, n \div LimbBase)
AddLimbs(a, b) == AddFrom(a, b, 1, 0)
RECURSIVE MulLimb(_, _, _, _)
MulLimb(a, d, i, carry) ==
    IF i > Len(a) THEN (IF carry = 0 THEN <<>> ELSE <<carry>>)
    ELSE LET n == a[i] * d + carry
         IN <<n % LimbBase>> \o MulLimb(a, d, i + 1, n \div LimbBase)
RECURSIVE MulLimbs(_, _)
MulLimbs(a, b) ==
    IF b = <<>> THEN <<>>
    ELSE AddLimbs(MulLimb(a, b[1], 1, 0), <<0>> \o MulLimbs(a, Tail(b)))

\* the quotient and remainder of an integer in limbs by a small divisor,
\* from limb i down
RECURSIVE DivFrom(_, _, _, _)
DivFrom(m, den, i, rem) ==
    IF i < 1 THEN [q |-> <<>>, rem |-> rem]
    ELSE LET cur == rem * LimbBase + m[i]
             lower == DivFrom(m, den, i - 1, cur % den)
         IN [q |-> Append(lower.q, cur \div den), rem |-> lower.rem]

\* round m * 2^e to the nearest Number, ties to even; sticky: the exact
\* value lies above m * 2^e (and below (m + 1) * 2^e)
FRound(m, e, sticky) ==
    IF BitLen(m) <= 53 THEN [m |-> m, e |-> e]
    ELSE LET r == BitLen(m) - 53
             kept == ShiftRight(m, r)
             guard == BitOf(m, r - 1) = 1
             rest == sticky \/ ~LowBitsZero(m, r - 1)
             odd == BitOf(m, r) = 1
         IN [m |-> IF guard /\ (rest \/ odd) THEN AddLimbs(kept, <<1>>) ELSE kept,
             e |-> e + r]

\* an integer value below 2^31
FromNat(n) == [m |-> Limbs(n), e |-> 0]

\* the Number a decimal literal num/den denotes (the nearest double)
FromDecimal(num, den) ==
    LET scaled == ShiftLeft(Limbs(num), 60)
        d == DivFrom(scaled, den, Len(scaled), 0)
    IN FRound(Trim(d.q), -60, d.rem # 0)

\* a * b, a + b and a / 4 on Numbers
FMul(a, b) == FRound(Trim(MulLimbs(a.m, b.m)), a.e + b.e, FALSE)
FPlus(a, b) ==
    LET lo == Min(a.e, b.e)
    IN FRound(Trim(AddLimbs(ShiftLeft(a.m, a.e - lo), ShiftLeft(b.m, b.e - lo))),
              lo, FALSE)
FQuarter(a) == [a EXCEPT !.e = @ - 2]

\* a / b for whole numbers a and b, 0 < b < 128 (the nearest Number)
FDiv(a, b) == FromDecimal(a, b)

\* Math.round of a Number a, 0 <= a < 2^31: floor(a + 1/2), the sum exact
MathRound(a) ==
    IF a.e >= 0 THEN ToInt(ShiftLeft(a.m, a.e))
    ELSE ToInt(ShiftRight(AddLimbs(a.m, ShiftLeft(<<1>>, 0 - a.e - 1)), 0 - a.e))

\* Math.floor of a Number below 2^31
FFloor(a) ==
    IF a.e >= 0 THEN ToInt(ShiftLeft(a.m, a.e)) ELSE ToInt(ShiftRight(a.m, 0 - a.e))

\* a <= b on integers in limbs (both without leading zero limbs)
RECURSIVE LimbsLeqFrom(_, _, _)
LimbsLeqFrom(a, b, i) ==
    IF i < 1 THEN TRUE
    ELSE IF a[i] # b[i] THEN a[i] < b[i]
    ELSE LimbsLeqFrom(a, b, i - 1)
LimbsLeq(a, b) ==
    IF Len(a) # Len(b) THEN Len(a) < Len(b) ELSE LimbsLeqFrom(a, b, Len(a))

\* the exact difference a - b of integers in limbs, for b <= a
RECURSIVE SubFrom(_, _, _, _)
SubFrom(a, b, i, borrow) ==
    IF i > Len(a) THEN <<>>
    ELSE LET n == a[i] - LimbAt(b, i) - borrow
         IN <<n % LimbBase>> \o SubFrom(a, b, i + 1, IF n < 0 THEN 1 ELSE 0)

\* a <= b, Math.max(a, b) and a - b (for b <= a) on Numbers
FLeq(a, b) ==
    LET lo == Min(a.e, b.e)
    IN LimbsLeq(ShiftLeft(a.m, a.e - lo), ShiftLeft(b.m, b.e - lo))
FMax(a, b) == IF FLeq(a, b) THEN b ELSE a
FMinus(a, b) ==
    LET lo == Min(a.e, b.e)
    IN FRound(Trim(SubFrom(ShiftLeft(a.m, a.e - lo), ShiftLeft(b.m, b.e - lo), 1, 0)),
              lo, FALSE)

\* ================================================================== catalogs
\* RANKS (rewardMultiplier in tenths)
RANKS == <<
    [level |-> 1, contractsRequired |-> 0, minGridSize |-> 4,
     requiredColors |-> <<"black", "white">>,
     patternComplexity |-> "simple", rewardMultiplier10 |-> 10],
    [level |-> 2, contractsRequired |-> 5, minGridSize |-> 4,
     requiredColors |-> <<"black", "white">>,
     patternComplexity |-> "basic", rewardMultiplier10 |-> 12],
    [level |-> 3, contractsRequired |-> 10, minGridSize |-> 6,
     requiredColors |-> <<"black", "white">>,
     patternComplexity |-> "medium", rewardMultiplier10 |-> 15],
    [level |-> 4, contractsRequired |-> 18, minGridSize |-> 6,
     requiredColors |-> <<"black", "white", "red">>,
     patternComplexity |-> "medium", rewardMultiplier10 |-> 18],
    [level |-> 5, contractsRequired |-> 28, minGridSize |-> 8,
     requiredColors |-> <<"black", "white", "red", "blue">>,
     patternComplexity |-> "complex", rewardMultiplier10 |-> 22],
    [level |-> 6, contractsRequired |-> 40, minGridSize |-> 8,
     requiredColors |-> <<"black", "white", "red", "blue", "green">>,
     patternComplexity |-> "complex", rewardMultiplier10 |-> 28],
    [level |-> 7, contractsRequired |-> 55, minGridSize |-> 10,
     requiredColors |-> <<"black", "white", "red", "blue", "green", "yellow">>,
     patternComplexity |-> "advanced", rewardMultiplier10 |-> 35],
    [level |-> 8, contractsRequired |-> 75, minGridSize |-> 12,
     requiredColors |-> <<"black", "white", "red", "blue", "green", "yellow",
                          "purple">>,
     patternComplexity |-> "advanced", rewardMultiplier10 |-> 45],
    [level |-> 9, contractsRequired |-> 100, minGridSize |-> 16,
     requiredColors |-> <<"black", "white", "red", "blue", "green", "yellow",
                          "purple", "orange">>,
     patternComplexity |-> "expert", rewardMultiplier10 |-> 60],
    [level |-> 10, contractsRequired |-> 150, minGridSize |-> 20,
     requiredColors |-> <<"black", "white", "red", "blue", "green", "yellow",
                          "purple", "orange", "cyan", "pink">>,
     patternComplexity |-> "master", rewardMultiplier10 |-> 80] >>

\* RANKS.find(r => r.level === level) || RANKS[0]
getRank(level) ==
    IF \E i \in 1..Len(RANKS) : RANKS[i].level = level
    THEN RANKS[CHOOSE i \in 1..Len(RANKS) : RANKS[i].level = level]
    ELSE RANKS[1]

getMaxRank == RANKS[Len(RANKS)].level

canAccessRankExactSize(rank, completed, gridSize, unlocked) ==
    /\ completed >= rank.contractsRequired
    /\ gridSize = rank.minGridSize
    /\ \A i \in 1..Len(rank.requiredColors) : rank.requiredColors[i] \in unlocked
canAccessRank(rank, completed, gridSize, unlocked) ==
    /\ completed >= rank.contractsRequired
    /\ gridSize >= rank.minGridSize
    /\ \A i \in 1..Len(rank.requiredColors) : rank.requiredColors[i] \in unlocked

getComplexityRange(complexity) ==
    CASE complexity = "simple" -> [min |-> 2, max |-> 4]
      [] complexity = "basic" -> [min |-> 4, max |-> 8]
      [] complexity = "medium" -> [min |-> 6, max |-> 12]
      [] complexity = "complex" -> [min |-> 10, max |-> 20]
      [] complexity = "advanced" -> [min |-> 15, max |-> 30]
      [] complexity = "expert" -> [min |-> 25, max |-> 50]
      [] complexity = "master" -> [min |-> 40, max |-> 80]
      [] OTHER -> [min |-> 2, max |-> 4]

getBaseReward(complexity) ==
    CASE complexity = "simple" -> 5
      [] complexity = "basic" -> 8
      [] complexity = "medium" -> 12
      [] complexity = "complex" -> 18
      [] complexity = "advanced" -> 25
      [] complexity = "expert" -> 35
      [] complexity = "master" -> 50
      [] OTHER -> 5

\* GRID_EXPANSIONS: size and cost of each tier, indexed by level
GRID_EXPANSIONS == <<
    [level |-> 1, size |-> 4, cost |-> 0],
    [level |-> 2, size |-> 6, cost |-> 50],
    [level |-> 3, size |-> 8, cost |-> 150],
    [level |-> 4, size |-> 10, cost |-> 400],
    [level |-> 5, size |-> 12, cost |-> 1000],
    [level |-> 6, size |-> 16, cost |-> 2500],
    [level |-> 7, size |-> 20, cost |-> 5000],
    [level |-> 8, size |-> 25, cost |-> 10000],
    [level |-> 9, size |-> 32, cost |-> 20000],
    [level |-> 10, size |-> 50, cost |-> 50000],
    [level |-> 11, size |-> 75, cost |-> 100000],
    [level |-> 12, size |-> 100, cost |-> 200000],
    [level |-> 13, size |-> 150, cost |-> 500000],
    [level |-> 14, size |-> 200, cost |-> 1000000],
    [level |-> 15, size |-> 500, cost |-> 5000000],
    [level |-> 16, size |-> 1000, cost |-> 20000000] >>

\* GRID_EXPANSIONS.find(e => e.level === currentLevel + 1) || null
getNextGridExpansion(currentLevel) ==
    IF \E i \in 1..Len(GRID_EXPANSIONS) : GRID_EXPANSIONS[i].level = currentLevel + 1
    THEN Some(GRID_EXPANSIONS[CHOOSE i \in 1..Len(GRID_EXPANSIONS) :
                                 GRID_EXPANSIONS[i].level = currentLevel + 1])
    ELSE None

\* the per-colour automation ids the model offers, and getAutoPainterColor
PainterIds == {"auto_painter_black"}
getAutoPainterColor(id) ==
    CASE id = "auto_painter_black" -> "black"
      [] id = "auto_painter_white" -> "white"
      [] id = "auto_painter_red" -> "red"
      [] id = "auto_painter_gold" -> "gold"
      [] OTHER -> NULL
isAutoPainterUpgrade(id) == getAutoPainterColor(id) # NULL

\* ========================================================== upgrades / flags
\* s.upgrades is the object { id: level } in property (insertion) order:
\* a sequence of [id, level]

RECURSIVE UpgradeIndex(_, _, _)
UpgradeIndex(ups, id, i) ==
    IF i > Len(ups) THEN 0
    ELSE IF ups[i].id = id THEN i ELSE UpgradeIndex(ups, id, i + 1)

\* GameState.getUpgradeLevel: upgrades[id] || 0
getUpgradeLevel(s, id) ==
    LET i == UpgradeIndex(s.upgrades, id, 1)
    IN IF i = 0 THEN 0 ELSE s.upgrades[i].level

\* GameState.purchaseUpgrade
purchaseUpgrade(s, id) ==
    LET currentLevel == getUpgradeLevel(s, id)
        i == UpgradeIndex(s.upgrades, id, 1)
        ups == IF i = 0
               THEN Append(s.upgrades, [id |-> id, level |-> currentLevel + 1])
               ELSE [s.upgrades EXCEPT ![i].level = currentLevel + 1]
        auto == IF currentLevel = 0
                THEN [k \in DOMAIN s.automationEnabled \cup {id} |->
                         IF k = id THEN TRUE ELSE s.automationEnabled[k]]
                ELSE s.automationEnabled
    IN GsEmit([s EXCEPT !.upgrades = ups, !.automationEnabled = auto],
              [name |-> "upgradeChanged", id |-> id, level |-> currentLevel + 1])

\* GameState.isAutomationEnabled
isAutomationEnabled(s, id) ==
    IF id = "auto_painters"
    THEN ~(id \in DOMAIN s.automationEnabled /\ s.automationEnabled[id] = FALSE)
    ELSE IF getUpgradeLevel(s, id) <= 0 THEN FALSE
    ELSE ~(id \in DOMAIN s.automationEnabled /\ s.automationEnabled[id] = FALSE)

\* GameState.setAutomationEnabled
setAutomationEnabled(s, upgradeId, enabled) ==
    LET set == [k \in DOMAIN s.automationEnabled \cup {upgradeId} |->
                   IF k = upgradeId THEN enabled ELSE s.automationEnabled[k]]
        done == GsEmit([s EXCEPT !.automationEnabled = set],
                       [name |-> "automationToggled", id |-> upgradeId,
                        enabled |-> enabled])
    IN IF upgradeId = "auto_painters" THEN [s |-> done, ret |-> TRUE]
       ELSE IF getUpgradeLevel(s, upgradeId) <= 0 THEN [s |-> s, ret |-> FALSE]
       ELSE [s |-> done, ret |-> TRUE]

\* GameState.getOwnedAutoPainters: the auto_painter_ keys, in property order
getOwnedAutoPainters(s) ==
    SelectSeq(s.upgrades, LAMBDA u : getAutoPainterColor(u.id) # NULL)

\* ============================================================ ContractSystem
gridSizeOf(s) == Min(s.grid.width, s.grid.height)

\* the loop of getHighestAccessibleRank from a level on, with its break
RECURSIVE HighestFrom(_, _, _)
HighestFrom(s, level, highest) ==
    IF level > getMaxRank THEN highest
    ELSE IF canAccessRank(getRank(level), s.completedContracts, gridSizeOf(s),
                          s.unlockedColors)
         THEN HighestFrom(s, level + 1, level)
         ELSE highest

getHighestAccessibleRank(s) == HighestFrom(s, 1, 1)

\* getAvailableRanks: every rank that is accessible by itself, in catalog order
getAvailableRanks(s) ==
    SelectSeq(RANKS, LAMBDA rank :
        canAccessRank(rank, s.completedContracts, gridSizeOf(s), s.unlockedColors))

\* rank.requiredColors.filter(c => hasColor(c)); if empty, ['black']
PatternColors(s, rank) ==
    LET cs == SelectSeq(rank.requiredColors, LAMBDA c : c \in s.unlockedColors)
    IN IF Len(cs) = 0 THEN <<"black">> ELSE cs

\* ---- pattern generators
\* A pattern under construction: its rows (arrays of colours), and whether a
\* write has thrown (pattern[y] undefined).  draw holds what the calls of
\* Math.random() decided: targetCells, type and color (generatePattern), coin
\* (a "random() > 0.5"), r1 and r2 (which of the RandSteps parts of [0, 1) the
\* next two "floor(random() * n)" draw from) and stream (the cells
\* generateScattered hits).

\* floor(random() * n) for random() = (r + 1/2) / RandSteps, the middle of the
\* r-th of RandSteps equal parts of [0, 1)
RandInt(r, n) == ((2 * r + 1) * n) \div (2 * RandSteps)

\* for (y < height) pattern.push(new Array(width).fill(null))
EmptyPattern(w, h) ==
    [rows |-> [y \in 1..h |-> [x \in 1..w |-> NULL]], threw |-> FALSE]

PatWidth(p) == Len(p.rows[1])
PatHeight(p) == Len(p.rows)
InPattern(p, x, y) == x >= 0 /\ x < PatWidth(p) /\ y >= 0 /\ y < PatHeight(p)

\* pattern[y][x] = color: a missing row throws, a negative x sets a property
\* and no entry, an x past the end lengthens the row over a hole
PatSet(p, x, y, color) ==
    IF p.threw THEN p
    ELSE IF y < 0 \/ y >= Len(p.rows) THEN [p EXCEPT !.threw = TRUE]
    ELSE IF x < 0 THEN p
    ELSE IF x < Len(p.rows[y + 1]) THEN [p EXCEPT !.rows[y + 1][x + 1] = color]
    ELSE [p EXCEPT !.rows[y + 1] =
             [i \in 1..(x + 1) |-> IF i <= Len(@) THEN @[i]
                                   ELSE IF i = x + 1 THEN color ELSE "undefined"]]

\* a candidate cell of a generator loop; guarded: written only inside the
\* pattern; ifNull: written only where the pattern still holds null
Cell(x, y) == [x |-> x, y |-> y, guarded |-> FALSE, ifNull |-> FALSE]
Guarded(x, y) == [x |-> x, y |-> y, guarded |-> TRUE, ifNull |-> FALSE]
GuardedNull(x, y) == [x |-> x, y |-> y, guarded |-> TRUE, ifNull |-> TRUE]

\* a generator loop "while candidates remain and placed < limit": a candidate
\* that is skipped does not count as placed
RECURSIVE Place(_, _, _, _, _)
Place(p, cands, placed, limit, color) ==
    IF cands = <<>> \/ placed >= limit \/ p.threw THEN p
    ELSE LET c == Head(cands)
         IN IF c.guarded /\ ~InPattern(p, c.x, c.y)
            THEN Place(p, Tail(cands), placed, limit, color)
            ELSE IF c.ifNull /\ p.rows[c.y + 1][c.x + 1] # NULL
            THEN Place(p, Tail(cands), placed, limit, color)
            ELSE Place(PatSet(p, c.x, c.y, color), Tail(cands), placed + 1,
                       limit, color)

\* Math.ceil(Math.sqrt(n)) and Math.ceil(n / d)
CeilSqrt(n) == CHOOSE k \in 0..n : k * k >= n /\ (k = 0 \/ (k - 1) * (k - 1) < n)
CeilDiv(n, d) == (n + d - 1) \div d

generateLineUnclamped(p, color, targetCells, draw) ==
    LET h == PatHeight(p)
        w == PatWidth(p)
        horizontal == draw.coin
        length == targetCells
    IN IF horizontal
       THEN LET y == RandInt(draw.r1, h)
                startX == RandInt(draw.r2, w - length + 1)
            IN Place(p, [i \in 1..length |-> Cell(startX + i - 1, y)], 0, length, color)
       ELSE LET x == RandInt(draw.r1, w)
                startY == RandInt(draw.r2, h - length + 1)
            IN Place(p, [i \in 1..length |-> Cell(x, startY + i - 1)], 0, length, color)
generateLine(p, color, targetCells, draw) ==
    LET h == PatHeight(p)
        w == PatWidth(p)
        horizontal == draw.coin
        length == Min(targetCells, IF horizontal THEN w ELSE h)
    IN IF horizontal
       THEN LET y == RandInt(draw.r1, h)
                startX == RandInt(draw.r2, w - length + 1)
            IN Place(p, [i \in 1..length |-> Cell(startX + i - 1, y)], 0, length, color)
       ELSE LET x == RandInt(draw.r1, w)
                startY == RandInt(draw.r2, h - length + 1)
            IN Place(p, [i \in 1..length |-> Cell(x, startY + i - 1)], 0, length, color)

\* the square of cells at distance radius or less around the centre, row by row
Ring(centerX, centerY, radius) ==
    [k \in 1..((2 * radius + 1) * (2 * radius + 1)) |->
        GuardedNull(centerX - radius + ((k - 1) % (2 * radius + 1)),
                    centerY - radius + ((k - 1) \div (2 * radius + 1)))]

generateDotCluster(p, color, targetCells, draw) ==
    LET centerX == RandInt(draw.r1, PatWidth(p))
        centerY == RandInt(draw.r2, PatHeight(p))
    IN Place(p, Ring(centerX, centerY, 0) \o Ring(centerX, centerY, 1)
                \o Ring(centerX, centerY, 2),
             0, targetCells, color)

generateCorner(p, color, targetCells, draw) ==
    LET h == PatHeight(p)
        w == PatWidth(p)
        corners == << <<0, 0>>, <<w - 1, 0>>, <<0, h - 1>>, <<w - 1, h - 1>> >>
        c == corners[RandInt(draw.r1, Len(corners)) + 1]
        cx == c[1]
        cy == c[2]
        dx == IF cx = 0 THEN 1 ELSE -1
        dy == IF cy = 0 THEN 1 ELSE -1
    IN Place(p, [i \in 1..3 |-> Guarded(cx + dx * (i - 1), cy)]
                \o [i \in 1..2 |-> Guarded(cx, cy + dy * i)],
             0, targetCells, color)

generateSquare(p, color, targetCells, draw) ==
    LET h == PatHeight(p)
        w == PatWidth(p)
        size == CeilSqrt(targetCells)
        actualSize == Min(size, Min(h, w))
        startX == RandInt(draw.r1, w - actualSize + 1)
        startY == RandInt(draw.r2, h - actualSize + 1)
    IN Place(p, [k \in 1..(actualSize * actualSize) |->
                    Cell(startX + ((k - 1) % actualSize),
                         startY + ((k - 1) \div actualSize))],
             0, targetCells, color)

generateLShape(p, color, targetCells, draw) ==
    LET h == PatHeight(p)
        w == PatWidth(p)
        armLength == CeilDiv(targetCells, 2)
        startX == RandInt(draw.r1, w - armLength)
        startY == RandInt(draw.r2, h - armLength)
    IN Place(p, [i \in 1..armLength |-> Cell(startX, startY + i - 1)]
                \o [i \in 1..(armLength - 1) |->
                       Cell(startX + i, startY + armLength - 1)],
             0, targetCells, color)

generateTShape(p, color, targetCells, draw) ==
    LET h == PatHeight(p)
        w == PatWidth(p)
        armLength == CeilDiv(targetCells, 4) + 1
        centerX == w \div 2
        centerY == h \div 2
    IN Place(p, [k \in 1..(2 * armLength + 1) |->
                    Guarded(centerX - armLength + k - 1, centerY)]
                \o [i \in 1..armLength |-> Guarded(centerX, centerY + i)],
             0, targetCells, color)

generateCross(p, color, targetCells, draw) ==
    LET h == PatHeight(p)
        w == PatWidth(p)
        centerX == w \div 2
        centerY == h \div 2
        armLength == CeilDiv(targetCells, 4)
        arm(k) == LET i == ((k - 1) \div 4) + 1
                  IN CASE (k - 1) % 4 = 0 -> Guarded(centerX, centerY - i)
                       [] (k - 1) % 4 = 1 -> Guarded(centerX, centerY + i)
                       [] (k - 1) % 4 = 2 -> Guarded(centerX - i, centerY)
                       [] OTHER -> Guarded(centerX + i, centerY)
    IN Place(PatSet(p, centerX, centerY, color),
             [k \in 1..(4 * armLength) |-> arm(k)], 1, targetCells, color)

generateDiagonal(p, color, targetCells, draw) ==
    LET h == PatHeight(p)
        w == PatWidth(p)
        direction == IF draw.coin THEN 1 ELSE -1
        startX == IF direction > 0 THEN 0 ELSE w - 1
        startY == RandInt(draw.r1, h - targetCells)
    IN Place(p, [i \in 1..targetCells |->
                    Guarded(startX + direction * (i - 1), startY + i - 1)],
             0, targetCells, color)

\* generateScattered: draw.stream is the cells its draws of x and y hit
generateScattered(p, color, targetCells, draw) ==
    Place(p, [i \in 1..Len(draw.stream) |->
                 [x |-> draw.stream[i][1], y |-> draw.stream[i][2],
                  guarded |-> FALSE, ifNull |-> TRUE]],
          0, targetCells, color)

getPatternTypesForComplexity(complexity) ==
    CASE complexity = "simple" -> <<"line", "dot_cluster", "corner">>
      [] complexity = "basic" -> <<"line", "square", "L_shape", "diagonal">>
      [] complexity = "medium" ->
             <<"square", "L_shape", "T_shape", "cross", "diagonal">>
      [] complexity = "complex" ->
             <<"hollow_square", "cross", "zigzag", "scattered", "frame_partial">>
      [] complexity = "advanced" ->
             <<"hollow_square", "multi_shape", "checkerboard_partial",
               "spiral_partial">>
      [] complexity = "expert" ->
             <<"complex_shape", "multi_color_pattern", "large_hollow",
               "maze_section">>
      [] complexity = "master" ->
             <<"massive_pattern", "intricate_design", "full_artwork">>
      [] OTHER -> <<"line", "square">>

\* the archetypes with a generator of their own that is not modelled here
NotModelled == {"hollow_square", "zigzag", "frame_partial", "checkerboard_partial"}

\* generatePatternType (colors is the one colour picked)
generatePatternType(p, type, color, targetCells, draw) ==
    CASE type = "line" -> generateLine(p, color, targetCells, draw)
      [] type = "dot_cluster" -> generateDotCluster(p, color, targetCells, draw)
      [] type = "corner" -> generateCorner(p, color, targetCells, draw)
      [] type = "square" -> generateSquare(p, color, targetCells, draw)
      [] type = "L_shape" -> generateLShape(p, color, targetCells, draw)
      [] type = "T_shape" -> generateTShape(p, color, targetCells, draw)
      [] type = "cross" -> generateCross(p, color, targetCells, draw)
      [] type = "diagonal" -> generateDiagonal(p, color, targetCells, draw)
      [] OTHER -> generateScattered(p, color, targetCells, draw)

\* generatePattern; no rank of the catalog has usePhotoPatterns or mixColors,
\* so the pattern is procedural and of the one colour drawn
generatePattern(s, rank, draw) ==
    generatePatternType(EmptyPattern(s.grid.width, s.grid.height), draw.type,
                        draw.color, draw.targetCells, draw)

\* generatePattern for the archetype 'line', drawn horizontally in row 0 from
\* column 0: height rows of width entries, the first min(targetCells, width)
\* entries of row 0 in the one colour picked
LinePattern(w, h, targetCells, color) ==
    [y \in 1..h |-> [x \in 1..w |->
        IF y = 1 /\ x <= Min(targetCells, w) THEN color ELSE NULL]]

\* countPatternCells: the entries of every row that are not null
countPatternCells(pattern) ==
    Cardinality({yx \in UNION {{y} \X (1..Len(pattern[y])) : y \in 1..Len(pattern)} :
                    pattern[yx[1]][yx[2]] # NULL})

\* the literal 0.15 of getMoneyBoostMultiplier
BoostPerLevel == FromDecimal(15, 100)

\* getMoneyBoostMultiplier: 1 + (level * 0.15)
getMoneyBoostMultiplier(s) ==
    FPlus(FromNat(1), FMul(FromNat(getUpgradeLevel(s, "money_boost")),
                           BoostPerLevel))

\* Math.floor(baseReward * rank.rewardMultiplier * moneyBoost * (cellCount / 4))
FloorReward(rank, moneyBoost, cellCount) ==
    FFloor(FMul(FMul(FMul(FromNat(getBaseReward(rank.patternComplexity)),
                          FromDecimal(rank.rewardMultiplier10, 10)),
                     moneyBoost),
                FQuarter(FromNat(cellCount))))

\* generateContract; rankLevel 0 stands for the default argument null.  The
\* result is the contract (None for null), or threw when the generator raised
generateContract(s, rankLevel, draw) ==
    LET level == IF rankLevel = 0 THEN getHighestAccessibleRank(s) ELSE rankLevel
        rank == getRank(level)
        p == generatePattern(s, rank, draw)
        pattern == p.rows
        cellCount == countPatternCells(pattern)
        reward == FloorReward(rank, getMoneyBoostMultiplier(s), cellCount)
    IN IF ~canAccessRank(rank, s.completedContracts, gridSizeOf(s), s.unlockedColors)
       THEN [threw |-> FALSE, contract |-> None]
       ELSE IF p.threw THEN [threw |-> TRUE, contract |-> None]
       ELSE [threw |-> FALSE,
             contract |-> Some([rankLevel |-> rank.level, pattern |-> pattern,
                                reward |-> Max(reward, 1), cellCount |-> cellCount])]

\* the draw that gives the horizontal line in row 0 from column 0
LineDraw(targetCells, color) ==
    [targetCells |-> targetCells, type |-> "line", color |-> color,
     coin |-> TRUE, r1 |-> 0, r2 |-> 0, stream |-> <<>>]

\* the draw of a scattered pattern whose stream fills a width-wide grid row
\* by row, n cells
RowMajorDraw(type, n, w, color) ==
    [targetCells |-> n, type |-> type, color |-> color,
     coin |-> FALSE, r1 |-> 0, r2 |-> 0,
     stream |-> [i \in 1..n |-> <<(i - 1) % w, (i - 1) \div w>>]]

\* draw is one the calls of Math.random() in generatePattern can produce for
\* the rank: targetCells within the tier's range, a type of the tier, a colour
\* of the rank that is unlocked, and for generateScattered a stream of cells
\* of the grid that reaches targetCells different ones
CanDraw(s, rankLevel, draw) ==
    LET level == IF rankLevel = 0 THEN getHighestAccessibleRank(s) ELSE rankLevel
        rank == getRank(level)
        cs == PatternColors(s, rank)
        range == getComplexityRange(rank.patternComplexity)
        types == getPatternTypesForComplexity(rank.patternComplexity)
        hit == {draw.stream[i] : i \in 1..Len(draw.stream)}
    IN /\ draw.targetCells \in range.min..range.max
       /\ \E i \in 1..Len(types) : types[i] = draw.type
       /\ draw.type \notin NotModelled
       /\ \E i \in 1..Len(cs) : cs[i] = draw.color
       /\ draw.r1 \in 0..(RandSteps - 1)
       /\ draw.r2 \in 0..(RandSteps - 1)
       /\ hit \subseteq (0..(s.grid.width - 1)) \X (0..(s.grid.height - 1))
       /\ IF draw.type \in {"line", "dot_cluster", "corner", "square", "L_shape",
                            "T_shape", "cross", "diagonal"}
          THEN draw.stream = <<>>
          ELSE Cardinality(hit) >= draw.targetCells

\* rankLevel ?? this.selectedRankLevel (0: null, left to
\* getHighestAccessibleRank by generateContract)
targetRank(rankLevel, selected) == IF rankLevel # 0 THEN rankLevel ELSE selected

\* ContractSystem.acceptContract; threw: the call raised instead of returning
acceptContractReplacing(s, rankLevel, draw) ==
    LET g == generateContract(s, rankLevel, draw)
    IN IF g.contract = None THEN [s |-> s, ret |-> FALSE, threw |-> g.threw]
       ELSE [s |-> SetActiveContract(s, g.contract[1]), ret |-> TRUE,
             threw |-> FALSE]
acceptContract(s, rankLevel, draw) ==
    IF s.activeContract # NoContract
    THEN [s |-> s, ret |-> FALSE, threw |-> FALSE]
    ELSE LET g == generateContract(s, rankLevel, draw)
         IN IF g.contract = None THEN [s |-> s, ret |-> FALSE, threw |-> g.threw]
            ELSE [s |-> SetActiveContract(s, g.contract[1]), ret |-> TRUE,
                  threw |-> FALSE]

\* ContractSystem.abandonContract
abandonContract(s) ==
    IF s.activeContract = NoContract THEN [s |-> s, ret |-> FALSE]
    ELSE [s |-> ClearContract(s), ret |-> TRUE]

\* contract.pattern[y]?.[x]: undefined where the pattern has no entry
UNDEFINED == "undefined"
PatternEntry(pattern, x, y) ==
    IF y >= 0 /\ y < Len(pattern) /\ x >= 0 /\ x < Len(pattern[y + 1])
    THEN pattern[y + 1][x + 1]
    ELSE UNDEFINED

\* ContractSystem.getProgress: None for null
getProgress(s) ==
    IF s.activeContract = NoContract THEN None
    ELSE LET contract == s.activeContract
             g == s.grid
             coords == (0..(g.width - 1)) \X (0..(g.height - 1))
             correct == Cardinality({xy \in coords :
                            /\ PatternEntry(contract.pattern, xy[1], xy[2]) # NULL
                            /\ PatternEntry(contract.pattern, xy[1], xy[2])
                                  = GetCell(g, xy[1], xy[2])})
             wrong == Cardinality({xy \in coords :
                            /\ PatternEntry(contract.pattern, xy[1], xy[2]) = NULL
                            /\ GetCell(g, xy[1], xy[2]) # NULL})
         IN Some([correct |-> correct, wrong |-> wrong,
                  total |-> contract.cellCount,
                  percent |-> IF contract.cellCount > 0
                              THEN MathRound(FMul(FDiv(correct, contract.cellCount),
                                                  FromNat(100)))
                              ELSE 0])

\* ========================================================= AutoPainterSystem
\* the coordinates where the pattern expects colorId and the grid lacks it
PaintTargetsEmptyOnly(g, pattern, colorId) ==
    {xy \in (0..(g.width - 1)) \X (0..(g.height - 1)) :
        /\ PatternAt(pattern, xy[1], xy[2]) = colorId
        /\ GetCell(g, xy[1], xy[2]) = NULL}
PaintTargetsAnyColour(g, pattern, colorId) ==
    {xy \in (0..(g.width - 1)) \X (0..(g.height - 1)) :
        /\ PatternAt(pattern, xy[1], xy[2]) # NULL
        /\ GetCell(g, xy[1], xy[2]) # colorId}
PaintTargets(g, pattern, colorId) ==
    {xy \in (0..(g.width - 1)) \X (0..(g.height - 1)) :
        /\ PatternAt(pattern, xy[1], xy[2]) = colorId
        /\ GetCell(g, xy[1], xy[2]) # colorId}

\* the first of them in the scan order: rows top to bottom, then left to right
LastInScan(T) ==
    CHOOSE t \in T : \A u \in T : t[2] > u[2] \/ (t[2] = u[2] /\ t[1] >= u[1])
FirstInScan(T) ==
    CHOOSE t \in T : \A u \in T : t[2] < u[2] \/ (t[2] = u[2] /\ t[1] <= u[1])

\* AutoPainterSystem.paintNextCell
paintNextCellStale(s, colorId) ==
    LET done == SelectSeq(s.events, LAMBDA e : e.name = "contractCompleted")
        contract == IF s.activeContract # NoContract THEN s.activeContract
                    ELSE IF done # <<>> THEN Last(done).contract
                    ELSE NoContract
    IN IF contract = NoContract THEN [s |-> s, ret |-> FALSE]
       ELSE LET T == PaintTargets(s.grid, contract.pattern, colorId)
            IN IF T = {} THEN [s |-> s, ret |-> FALSE]
               ELSE LET t == FirstInScan(T)
                    IN [s |-> AfterGridCall(s, GridSetCell(s.grid, t[1], t[2], colorId)),
                        ret |-> TRUE]
paintNextCellUnrecorded(s, colorId) ==
    IF s.activeContract = NoContract THEN [s |-> s, ret |-> FALSE]
    ELSE LET T == PaintTargets(s.grid, s.activeContract.pattern, colorId)
         IN IF T = {} THEN [s |-> s, ret |-> FALSE]
            ELSE LET t == FirstInScan(T)
                     r == GridSetCell(s.grid, t[1], t[2], colorId)
                 IN [s |-> AfterGridCall(s, [r EXCEPT !.grid.history = s.grid.history]),
                     ret |-> TRUE]
paintNextCell(s, colorId) ==
    IF s.activeContract = NoContract THEN [s |-> s, ret |-> FALSE]
    ELSE LET T == PaintTargets(s.grid, s.activeContract.pattern, colorId)
         IN IF T = {} THEN [s |-> s, ret |-> FALSE]
            ELSE LET t == FirstInScan(T)
                 IN [s |-> AfterGridCall(s, GridSetCell(s.grid, t[1], t[2], colorId)),
                     ret |-> TRUE]

\* the loop of tick over the owned painters; due holds the painters whose
\* interval has elapsed (the clock itself is not part of this state)
RECURSIVE TickLoop(_, _, _)
TickLoop(s, painters, due) ==
    IF painters = <<>> THEN s
    ELSE LET painterId == Head(painters).id
             colorId == getAutoPainterColor(painterId)
         IN IF colorId # NULL /\ painterId \in due
            THEN TickLoop(paintNextCell(s, colorId).s, Tail(painters), due)
            ELSE TickLoop(s, Tail(painters), due)

\* AutoPainterSystem.tick
tick(s, due) ==
    IF s.activeContract = NoContract THEN s
    ELSE IF ~isAutomationEnabled(s, "auto_painters") THEN s
    ELSE TickLoop(s, getOwnedAutoPainters(s), due)

\* ================================================================ ShopSystem
\* ShopSystem.buyGridExpansion
buyGridExpansion(s) ==
    LET next == getNextGridExpansion(s.gridLevel)
    IN IF next = None THEN [s |-> s, ret |-> FALSE]
       ELSE IF ~(s.money >= next[1].cost) THEN [s |-> s, ret |-> FALSE]
       ELSE LET s1 == SpendMoney(s, next[1].cost).s
                s2 == ExpandGrid(s1, next[1].size, next[1].size).s
            IN [s |-> s2, ret |-> TRUE]

\* COLORS: the cost of each catalog colour
COLORS ==
    [black |-> 0, white |-> 0, red |-> 50, blue |-> 50, green |-> 50,
     yellow |-> 75, orange |-> 100, purple |-> 100, pink |-> 125, cyan |-> 125,
     gold |-> 250, silver |-> 200, brown |-> 150, navy |-> 175,
     rainbow |-> 1000, neon |-> 500]

\* ShopSystem.getColorPrice: COLORS[colorId]?.cost || 0
getColorPrice(colorId) ==
    IF colorId \in DOMAIN COLORS THEN COLORS[colorId] ELSE 0

\* ShopSystem.canBuyColor
canBuyColor(s, colorId) ==
    IF hasColor(s, colorId) THEN FALSE
    ELSE s.money >= getColorPrice(colorId)

\* ShopSystem.buyColor
buyColorUnchecked(s, colorId) ==
    LET price == getColorPrice(colorId)
        s1 == SpendMoney(s, price).s
        s2 == unlockColor(s1, colorId).s
    IN [s |-> s2, ret |-> TRUE]
buyColor(s, colorId) ==
    IF ~canBuyColor(s, colorId) THEN [s |-> s, ret |-> FALSE]
    ELSE LET price == getColorPrice(colorId)
             s1 == SpendMoney(s, price).s
             s2 == unlockColor(s1, colorId).s
         IN [s |-> s2, ret |-> TRUE]

\* ---- upgrades
\* UPGRADES (costMultiplier in tenths; no entry has a requires field)
UPGRADES ==
    [hold_to_paint |-> [baseCost |-> 25, costMultiplier10 |-> 10, maxLevel |-> 1,
                        requires |-> NULL],
     money_boost |-> [baseCost |-> 40, costMultiplier10 |-> 20, maxLevel |-> 20,
                      requires |-> NULL],
     multi_brush |-> [baseCost |-> 200, costMultiplier10 |-> 25, maxLevel |-> 5,
                      requires |-> NULL],
     undo_buffer |-> [baseCost |-> 75, costMultiplier10 |-> 15, maxLevel |-> 5,
                      requires |-> NULL],
     contract_preview |-> [baseCost |-> 150, costMultiplier10 |-> 10, maxLevel |-> 1,
                           requires |-> NULL],
     precision_mode |-> [baseCost |-> 100, costMultiplier10 |-> 10, maxLevel |-> 1,
                         requires |-> NULL],
     auto_start_contract |-> [baseCost |-> 50, costMultiplier10 |-> 10,
                              maxLevel |-> 1, requires |-> NULL],
     speed_boost |-> [baseCost |-> 500, costMultiplier10 |-> 22, maxLevel |-> 10,
                      requires |-> NULL]]

\* AUTO_PAINTER_CONFIG (costMultiplier in tenths, intervalReductionPerLevel in
\* hundredths)
AUTO_PAINTER_CONFIG ==
    [baseCost |-> 75, costMultiplier10 |-> 15, maxLevel |-> 5,
     baseInterval |-> 5000, intervalReductionPerLevel100 |-> 15]

\* Math.pow(a, n) for a whole n >= 0, by repeated multiplication
RECURSIVE FPowFrom(_, _, _)
FPowFrom(acc, a, n) ==
    IF n = 0 \/ acc.m = <<>> THEN acc ELSE FPowFrom(FMul(acc, a), a, n - 1)
FPow(a, n) == FPowFrom(FromNat(1), a, n)

\* Math.floor(baseCost * Math.pow(costMultiplier, currentLevel))
FloorCost(baseCost, costMultiplier10, currentLevel) ==
    FFloor(FMul(FromNat(baseCost), FPow(FromDecimal(costMultiplier10, 10),
                                        currentLevel)))

\* getUpgradeCost; Infinity for an id outside the catalog
Infinity == "Infinity"
getUpgradeCostFlat(upgradeId, currentLevel) ==
    IF isAutoPainterUpgrade(upgradeId) THEN AUTO_PAINTER_CONFIG.baseCost
    ELSE IF upgradeId \notin DOMAIN UPGRADES THEN Infinity
    ELSE UPGRADES[upgradeId].baseCost
getUpgradeCost(upgradeId, currentLevel) ==
    IF isAutoPainterUpgrade(upgradeId)
    THEN FloorCost(AUTO_PAINTER_CONFIG.baseCost, AUTO_PAINTER_CONFIG.costMultiplier10,
                   currentLevel)
    ELSE IF upgradeId \notin DOMAIN UPGRADES THEN Infinity
    ELSE FloorCost(UPGRADES[upgradeId].baseCost, UPGRADES[upgradeId].costMultiplier10,
                   currentLevel)

\* canPurchaseUpgrade(upgradeId, ownedUpgrades)
canPurchaseUpgrade(upgradeId, ownedUpgrades) ==
    IF upgradeId \notin DOMAIN UPGRADES THEN FALSE
    ELSE IF UPGRADES[upgradeId].requires # NULL
            /\ UPGRADES[upgradeId].requires \notin ownedUpgrades THEN FALSE
    ELSE TRUE

\* ShopSystem.getUpgradePrice
getUpgradePrice(s, upgradeId) ==
    getUpgradeCost(upgradeId, getUpgradeLevel(s, upgradeId))

\* the ids with hasUpgrade, as canBuyUpgrade collects them
OwnedUpgrades(s) ==
    {s.upgrades[i].id : i \in {j \in 1..Len(s.upgrades) : s.upgrades[j].level > 0}}

\* ShopSystem.canBuyUpgrade
canBuyUpgradeAnyLevel(s, upgradeId) ==
    IF isAutoPainterUpgrade(upgradeId)
    THEN IF ~hasColor(s, getAutoPainterColor(upgradeId)) THEN FALSE
         ELSE s.money >= getUpgradePrice(s, upgradeId)
    ELSE IF upgradeId \notin DOMAIN UPGRADES THEN FALSE
    ELSE IF ~canPurchaseUpgrade(upgradeId, OwnedUpgrades(s)) THEN FALSE
    ELSE s.money >= getUpgradePrice(s, upgradeId)
canBuyUpgrade(s, upgradeId) ==
    IF isAutoPainterUpgrade(upgradeId)
    THEN IF ~hasColor(s, getAutoPainterColor(upgradeId)) THEN FALSE
         ELSE IF getUpgradeLevel(s, upgradeId) >= AUTO_PAINTER_CONFIG.maxLevel
              THEN FALSE
         ELSE s.money >= getUpgradePrice(s, upgradeId)
    ELSE IF upgradeId \notin DOMAIN UPGRADES THEN FALSE
    ELSE IF getUpgradeLevel(s, upgradeId) >= UPGRADES[upgradeId].maxLevel THEN FALSE
    ELSE IF ~canPurchaseUpgrade(upgradeId, OwnedUpgrades(s)) THEN FALSE
    ELSE s.money >= getUpgradePrice(s, upgradeId)

\* ShopSystem.buyUpgrade
buyUpgrade(s, upgradeId) ==
    IF ~canBuyUpgrade(s, upgradeId) THEN [s |-> s, ret |-> FALSE]
    ELSE LET price == getUpgradePrice(s, upgradeId)
             s1 == SpendMoney(s, price).s
         IN [s |-> purchaseUpgrade(s1, upgradeId), ret |-> TRUE]

\* ---- the paint interval
\* Math.max(floor, 1 - reduction): the difference is negative, and the floor
\* the larger, when reduction exceeds 1
MaxOfFloor(floor, reduction) ==
    IF FLeq(FromNat(1), reduction) THEN floor
    ELSE FMax(floor, FMinus(FromNat(1), reduction))

\* the interval of AutoPainterSystem.getInterval before its minimum, on the
\* two levels it reads
IntervalProduct(level, speedBoostLevel) ==
    LET levelPart ==
            MaxOfFloor(FromDecimal(2, 10),
                       FMul(FromNat(level),
                            FromDecimal(AUTO_PAINTER_CONFIG.intervalReductionPerLevel100,
                                        100)))
        interval1 == FMul(FromNat(AUTO_PAINTER_CONFIG.baseInterval), levelPart)
        speedPart ==
            MaxOfFloor(FromDecimal(1, 10),
                       FMul(FromNat(speedBoostLevel), FromDecimal(25, 100)))
    IN FMul(interval1, speedPart)
IntervalOfNoMinimum(level, speedBoostLevel) ==
    IntervalProduct(level, speedBoostLevel)
IntervalOf(level, speedBoostLevel) ==
    FMax(FromNat(200), IntervalProduct(level, speedBoostLevel))

\* AutoPainterSystem.getInterval
getInterval(s, painterId) ==
    IntervalOf(getUpgradeLevel(s, painterId), getUpgradeLevel(s, "speed_boost"))

\* ---- the automation timer's callback, with the clock
\* now - lastPaint >= interval, lastPaint being this.lastPaintTime[colorId] || 0.
\* The clock of the model counts milliseconds from the page load; Date.now()
\* itself is of the order of 10^12, so for a colour never painted (lastPaint 0)
\* the difference exceeds every interval.
IntervalElapsedAlways(interval, last, colorId, t) == TRUE
IntervalElapsed(interval, last, colorId, t) ==
    IF colorId \notin DOMAIN last THEN TRUE
    ELSE FLeq(interval, FromNat(t - last[colorId]))

\* the loop of tick over the owned painters at Date.now() = t; st holds the
\* game, lastPaintTime and the colours painted by this call
RECURSIVE TickLoopAt(_, _, _)
TickLoopAt(st, painters, t) ==
    IF painters = <<>> THEN st
    ELSE LET painterId == Head(painters).id
             colorId == getAutoPainterColor(painterId)
             interval == getInterval(st.s, painterId)
         IN IF colorId = NULL THEN TickLoopAt(st, Tail(painters), t)
            ELSE IF ~IntervalElapsed(interval, st.last, colorId, t)
            THEN TickLoopAt(st, Tail(painters), t)
            ELSE LET r == paintNextCell(st.s, colorId)
                 IN IF r.ret
                    THEN TickLoopAt([s |-> r.s,
                                     last |-> [c \in DOMAIN st.last \cup {colorId} |->
                                                  IF c = colorId THEN t ELSE st.last[c]],
                                     painted |-> st.painted \cup {colorId}],
                                    Tail(painters), t)
                    ELSE TickLoopAt([st EXCEPT !.s = r.s], Tail(painters), t)

\* AutoPainterSystem.tick at Date.now() = t
tickAtAnySwitch(s, last, t) ==
    IF s.activeContract = NoContract THEN [s |-> s, last |-> last, painted |-> {}]
    ELSE TickLoopAt([s |-> s, last |-> last, painted |-> {}],
                    getOwnedAutoPainters(s), t)
tickAt(s, last, t) ==
    IF s.activeContract = NoContract THEN [s |-> s, last |-> last, painted |-> {}]
    ELSE IF ~isAutomationEnabled(s, "auto_painters")
    THEN [s |-> s, last |-> last, painted |-> {}]
    ELSE TickLoopAt([s |-> s, last |-> last, painted |-> {}],
                    getOwnedAutoPainters(s), t)

\* ============================================================== save / load
\* A save document: present is FALSE for null; a numeric field that is absent
\* is 0 (the source reads all of them with "|| default"); other absent fields
\* are None.  grid.cells is None when it is not an array, else its items with
\* sparse = Array.isArray(cells[0]): items are <<x, y, colour>> triples
\* (sparse) or colours in row-major order (legacy dense).

\* an item of a sparse cell list that is null instead of an [x, y, colour]
\* array: destructuring it raises a TypeError
NullItem == <<NULL>>

\* the sparse branch of Grid.deserialize; threw: the loop met a null item
RECURSIVE LoadSparse(_, _)
LoadSparse(c, items) ==
    IF items = <<>> THEN [c |-> c, threw |-> FALSE]
    ELSE LET it == Head(items)
         IN IF it = NullItem THEN [c |-> c, threw |-> TRUE]
            ELSE LoadSparse(IF it[3] # NULL THEN PutCell(c, <<it[1], it[2]>>, it[3])
                            ELSE c,
                            Tail(items))

\* the legacy branch: x = i % width, y = floor(i / width), i from 0
RECURSIVE LoadDense(_, _, _, _)
LoadDense(c, items, i, w) ==
    IF i >= Len(items) THEN c
    ELSE LoadDense(IF items[i + 1] # NULL
                   THEN PutCell(c, <<i % w, i \div w>>, items[i + 1]) ELSE c,
                   items, i + 1, w)

\* Grid.deserialize
GridDeserialize(g, data) ==
    LET w == IF data.width = 0 THEN 4 ELSE data.width
        h == IF data.height = 0 THEN 4 ELSE data.height
        loaded == IF data.cells = None THEN [c |-> EmptyCells, threw |-> FALSE]
                  ELSE IF Len(data.cells[1].items) > 0 /\ data.cells[1].sparse
                       THEN LoadSparse(EmptyCells, data.cells[1].items)
                       ELSE [c |-> LoadDense(EmptyCells, data.cells[1].items, 0, w),
                             threw |-> FALSE]
    IN [grid |-> [width |-> w, height |-> h, cells |-> loaded.c, history |-> <<>>],
        emitted |-> IF loaded.threw THEN <<>> ELSE <<[name |-> "gridLoaded"]>>,
        threw |-> loaded.threw]

DefaultColors == {"black", "white"}
DefaultStats == [totalContractsCompleted |-> 0]
NoFlags == [k \in {} |-> TRUE]

\* GameState.deserialize; threw: grid.deserialize raised a TypeError, on an
\* undefined grid section or on a null item of its cell list
deserializeAnyVersion(s, data) ==
    IF ~data.present THEN [s |-> s, ret |-> FALSE, threw |-> FALSE]
    ELSE [s |-> GsEmit([s EXCEPT !.money = data.money,
                                 !.completedContracts = data.completedContracts],
                       [name |-> "stateLoaded"]),
          ret |-> TRUE, threw |-> FALSE]
deserialize(s, data) ==
    IF ~data.present \/ (data.version # 2 /\ data.version # 3 /\ data.version # 4)
    THEN [s |-> s, ret |-> FALSE, threw |-> FALSE]
    ELSE LET savedWidth == IF data.grid = None \/ data.grid[1].width = 0
                           THEN 4 ELSE data.grid[1].width
             savedHeight == IF data.grid = None \/ data.grid[1].height = 0
                            THEN 4 ELSE data.grid[1].height
             s1 == IF savedWidth # s.grid.width \/ savedHeight # s.grid.height
                   THEN AfterGridCall(s, GridExpand(s.grid, savedWidth, savedHeight))
                   ELSE s
         IN IF data.grid = None
            THEN [s |-> s1, ret |-> FALSE, threw |-> TRUE]
            ELSE IF GridDeserialize(s1.grid, data.grid[1]).threw
            THEN [s |-> AfterGridCall(s1, GridDeserialize(s1.grid, data.grid[1])),
                  ret |-> FALSE, threw |-> TRUE]
            ELSE LET s2 == AfterGridCall(s1, GridDeserialize(s1.grid, data.grid[1]))
                     s3 == [s2 EXCEPT
                         !.gridLevel = IF data.gridLevel = 0 THEN 1 ELSE data.gridLevel,
                         !.money = data.money,
                         !.unlockedColors = IF data.unlockedColors = None
                                            THEN DefaultColors
                                            ELSE data.unlockedColors[1],
                         !.selectedColor = IF data.selectedColor = None
                                           THEN "black" ELSE data.selectedColor[1],
                         !.upgrades = IF data.upgrades = None
                                      THEN <<>> ELSE data.upgrades[1],
                         !.automationEnabled = IF data.automationEnabled = None
                                               THEN NoFlags
                                               ELSE data.automationEnabled[1],
                         !.activeContract = data.activeContract,
                         !.completedContracts = data.completedContracts,
                         !.stats = IF data.stats = None THEN DefaultStats
                                   ELSE data.stats[1]]
                 IN [s |-> GsEmit(s3, [name |-> "stateLoaded"]),
                     ret |-> TRUE, threw |-> FALSE]

\* SaveManager.importSave on the decoded document: an exception is caught and
\* reported as false
importSave(s, data) ==
    LET r == deserialize(s, data)
    IN [s |-> r.s, ret |-> IF r.threw THEN FALSE ELSE r.ret]

\* Grid.serialize: one [x, y, colour] item for each entry of the Map, x and y
\* read back from the key; sparse: the first item is an array
RECURSIVE CellItems(_, _)
CellItems(c, keys) ==
    IF keys = {} THEN <<>>
    ELSE LET k == CHOOSE k \in keys : TRUE
         IN << <<k[1], k[2], c[k]>> >> \o CellItems(c, keys \ {k})
GridSerializeSwapped(g) ==
    [width |-> g.width, height |-> g.height,
     cells |-> Some([sparse |-> DOMAIN g.cells # {},
                     items |-> [i \in 1..Len(CellItems(g.cells, DOMAIN g.cells)) |->
                         LET it == CellItems(g.cells, DOMAIN g.cells)[i]
                         IN <<it[2], it[1], it[3]>>]])]
GridSerialize(g) ==
    [width |-> g.width, height |-> g.height,
     cells |-> Some([sparse |-> DOMAIN g.cells # {},
                     items |-> CellItems(g.cells, DOMAIN g.cells)])]

\* GameState.serialize, as the document JSON.parse(JSON.stringify(...)) gives
serialize(s) ==
    [present |-> TRUE, version |-> 4,
     grid |-> Some(GridSerialize(s.grid)),
     gridLevel |-> s.gridLevel, money |-> s.money,
     unlockedColors |-> Some(s.unlockedColors),
     selectedColor |-> Some(s.selectedColor),
     upgrades |-> Some(s.upgrades),
     automationEnabled |-> Some(s.automationEnabled),
     activeContract |-> s.activeContract,
     completedContracts |-> s.completedContracts,
     stats |-> Some(s.stats)]

\* new GameState(), as a value
NewGame ==
    [grid |-> [width |-> StartSize, height |-> StartSize, cells |-> EmptyCells,
               history |-> <<>>],
     gridLevel |-> 1, money |-> 0,
     unlockedColors |-> DefaultColors, selectedColor |-> "black",
     upgrades |-> <<>>, automationEnabled |-> NoFlags,
     activeContract |-> NoContract,
     completedContracts |-> 0, stats |-> DefaultStats,
     events |-> <<>>, observed |-> <<>>]

\* ---- the documents offered to importSave
\* a rank-1 contract as generateContract makes it on the 4x4 grid
SavedContract ==
    [rankLevel |-> 1, pattern |-> LinePattern(4, 4, 2, "black"),
     reward |-> 2, cellCount |-> 2]

\* a save taken in the middle of that contract by a player who owns the
\* black auto-painter, (0,0) already painted
DocMidContract ==
    [present |-> TRUE, version |-> 4,
     grid |-> Some([width |-> 4, height |-> 4,
                    cells |-> Some([sparse |-> TRUE,
                                    items |-> << <<0, 0, "black">> >>])]),
     gridLevel |-> 1, money |-> 7,
     unlockedColors |-> Some({"black", "white"}),
     selectedColor |-> Some("black"),
     upgrades |-> Some(<< [id |-> "auto_painter_black", level |-> 1] >>),
     automationEnabled |-> Some(NoFlags),
     activeContract |-> SavedContract, completedContracts |-> 0,
     stats |-> Some(DefaultStats)]

\* the same with an unsupported version tag
DocOldVersion == [DocMidContract EXCEPT !.version = 1]

\* null
DocNull == [DocMidContract EXCEPT !.present = FALSE]

\* a version-3 save whose cell list names a column outside its 4x4 grid
DocOutOfRange ==
    [DocMidContract EXCEPT
        !.version = 3, !.money = 0, !.activeContract = NoContract,
        !.grid = Some([width |-> 4, height |-> 4,
                       cells |-> Some([sparse |-> TRUE,
                                       items |-> << <<4, 0, "white">> >>])])]

\* a version-2 save in the legacy dense format, 17 entries for a 4x4 grid
DocLegacy ==
    [DocMidContract EXCEPT
        !.version = 2, !.money = 0, !.activeContract = NoContract,
        !.grid = Some([width |-> 4, height |-> 4,
                       cells |-> Some([sparse |-> FALSE,
                           items |-> [i \in 1..17 |->
                               IF i = 2 THEN "white"
                               ELSE IF i = 17 THEN "black" ELSE NULL]])])]

\* a save whose money field is negative
DocNegativeMoney ==
    [DocMidContract EXCEPT
        !.money = -5, !.activeContract = NoContract,
        !.grid = Some([width |-> 4, height |-> 4,
                       cells |-> Some([sparse |-> TRUE, items |-> <<>>])])]

\* a save of a later format, version 5
DocFuture == [DocMidContract EXCEPT !.version = 5]

\* a version-4 save without a grid section
DocNoGrid == [DocMidContract EXCEPT !.grid = None]

\* a version-4 save of a 6x6 grid whose cell list holds a null after its
\* first item
DocBrokenCells ==
    [DocMidContract EXCEPT
        !.grid = Some([width |-> 6, height |-> 6,
                       cells |-> Some([sparse |-> TRUE,
                                       items |-> << <<1, 1, "white">>, NullItem >>])])]

\* a save whose colour fields name only 'black' and select 'red'
DocColours ==
    [DocNegativeMoney EXCEPT
        !.money = 0, !.upgrades = Some(<<>>),
        !.unlockedColors = Some({"black"}), !.selectedColor = Some("red")]


\* ============================================================= state machine
\* the GameState as a value, with nothing emitted or observed yet
Cur ==
    [grid |-> [width |-> width, height |-> height, cells |-> cells,
               history |-> history],
     gridLevel |-> gridLevel, money |-> money,
     unlockedColors |-> unlockedColors, selectedColor |-> selectedColor,
     upgrades |-> upgrades, automationEnabled |-> automationEnabled,
     activeContract |-> activeContract,
     completedContracts |-> completedContracts, stats |-> stats,
     events |-> <<>>, observed |-> <<>>]

\* The undo history an observer of the event stream expects: an edit event
\* (cellChanged with oldColor, or each entry of cellsChanged) is one more
\* reversible edit, of which the most recent maxHistory are kept; cellChanged
\* without oldColor is an undo; a cleared, resized or loaded grid starts anew.
RECURSIVE RefAfter(_, _)
RefAfter(ref, evs) ==
    IF evs = <<>> THEN ref
    ELSE LET e == Head(evs)
             edit(c) == [x |-> c.x, y |-> c.y, oldColor |-> c.oldColor,
                         newColor |-> c.color]
             next ==
                 CASE e.name = "cellChanged" /\ "oldColor" \in DOMAIN e ->
                          LastN(maxHistory, Append(ref, edit(e)))
                   [] e.name = "cellChanged" /\ "oldColor" \notin DOMAIN e ->
                          Front(ref)
                   [] e.name = "cellsChanged" ->
                          LastN(maxHistory,
                                ref \o [i \in 1..Len(e.changes) |-> edit(e.changes[i])])
                   [] e.name \in {"gridCleared", "gridResized", "gridLoaded"} -> <<>>
                   [] OTHER -> ref
         IN RefAfter(next, Tail(evs))

\* the call o has run to completion, leaving the game s and returning r
CommitGame(s, o, r) ==
    \E v \in {s} :
        /\ width' = v.grid.width
        /\ height' = v.grid.height
        /\ cells' = v.grid.cells
        /\ history' = v.grid.history
        /\ gridLevel' = v.gridLevel
        /\ money' = v.money
        /\ unlockedColors' = v.unlockedColors
        /\ selectedColor' = v.selectedColor
        /\ upgrades' = v.upgrades
        /\ automationEnabled' = v.automationEnabled
        /\ activeContract' = v.activeContract
        /\ completedContracts' = v.completedContracts
        /\ stats' = v.stats
        /\ op' = o
        /\ ret' = r
        /\ events' = v.events
        /\ observed' = v.observed
        /\ preCells' = cells
        /\ refHistory' = RefAfter(refHistory, v.events)

\* a call on the game that touches no timer and no system field
Commit(s, o, r) == CommitGame(s, o, r) /\ UNCHANGED sysVars

\* the systems as their constructors leave them (new Game(), before init()):
\* no timer, nothing painted yet, no rank selected; the clock starts at 0.
\* timers is the browser's table of active intervals: id -> kind of callback
\* ("tick" or "save"), period and instant of the next firing; ids are positive.
NoTimer == 0                        \* intervalId / autoSaveInterval === null
NewSys ==
    [selectedRankLevel |-> 0, intervalId |-> NoTimer, lastPaintTime |-> << >>,
     autoSaveInterval |-> NoTimer, isRunning |-> FALSE, now |-> 0,
     hidden |-> FALSE, timers |-> << >>, timeouts |-> <<>>]
NewSystems ==
    /\ selectedRankLevel = 0
    /\ intervalId = NoTimer
    /\ lastPaintTime = << >>
    /\ autoSaveInterval = NoTimer
    /\ isRunning = FALSE
    /\ now = 0
    /\ hidden = FALSE
    /\ timers = << >>
    /\ timeouts = <<>>
    /\ waiting = << >>

\* new GameState()
Init ==
    /\ width = StartSize
    /\ height = StartSize
    /\ cells = EmptyCells
    /\ history = <<>>
    /\ gridLevel = 1
    /\ money = 0
    /\ unlockedColors = DefaultColors
    /\ selectedColor = "black"
    /\ upgrades = <<>>
    /\ automationEnabled = NoFlags
    /\ activeContract = NoContract
    /\ completedContracts = 0
    /\ stats = DefaultStats
    /\ op = [name |-> "new"]
    /\ ret = FALSE
    /\ events = <<>>
    /\ observed = <<>>
    /\ preCells = EmptyCells
    /\ refHistory = <<>>
    /\ NewSystems

\* the batches offered to setCells: a line painted, the same line erased,
\* and batches that repeat a cell, leave the grid or change nothing
PaintLine ==
    << [x |-> 0, y |-> 0, color |-> "black"], [x |-> 1, y |-> 0, color |-> "black"] >>
EraseLine ==
    << [x |-> 0, y |-> 0, color |-> NULL], [x |-> 1, y |-> 0, color |-> NULL] >>
BatchIn ==
    { PaintLine,
      << [x |-> 0, y |-> 0, color |-> "white"], [x |-> 0, y |-> 0, color |-> NULL],
         [x |-> -1, y |-> 0, color |-> "black"] >>,
      << [x |-> 1, y |-> 0, color |-> NULL], [x |-> 4, y |-> 0, color |-> "white"] >> }

\* grid.setCell(x, y, color); op.before is the history length before the call
DoSetCell(x, y, color) ==
    LET r == GridSetCell(Cur.grid, x, y, color)
    IN Commit(AfterGridCall(Cur, r),
              [name |-> "setCell", x |-> x, y |-> y, color |-> color,
               before |-> Len(history)], r.ret)

\* grid.setCells(changes); ret is "count > 0", the count is op.count
DoSetCells(changes) ==
    LET r == GridSetCells(Cur.grid, changes)
    IN Commit(AfterGridCall(Cur, r),
              [name |-> "setCells", changes |-> changes, count |-> r.ret,
               before |-> Len(history)], r.ret > 0)

\* grid.undo(); op.afterSetCell: the call before it was a setCell that
\* returned true
DoUndo ==
    LET r == GridUndo(Cur.grid)
    IN Commit(AfterGridCall(Cur, r),
              [name |-> "undo", afterSetCell |-> (op.name = "setCell" /\ ret)], r.ret)

\* grid.clear() (the clear-grid button); it returns nothing
DoClear ==
    Commit(AfterGridCall(Cur, GridClear(Cur.grid)),
           [name |-> "clear"], TRUE)

\* gameState.expandGrid(newWidth, newHeight)
DoExpandGrid(newWidth, newHeight) ==
    LET r == ExpandGrid(Cur, newWidth, newHeight)
    IN Commit(r.s, [name |-> "expandGrid", newWidth |-> newWidth,
                    newHeight |-> newHeight, before |-> Len(history)], r.ret)

\* shopSystem.buyGridExpansion()
DoBuyGridExpansion ==
    LET r == buyGridExpansion(Cur)
    IN Commit(r.s, [name |-> "buyGridExpansion"], r.ret)

\* gameState.addMoney(amount)
DoAddMoney(amount) ==
    LET r == AddMoney(Cur, amount)
    IN Commit(r.s, [name |-> "addMoney", amount |-> amount], r.ret)

\* gameState.spendMoney(amount)
DoSpendMoney(amount) ==
    LET r == SpendMoney(Cur, amount)
    IN Commit(r.s, [name |-> "spendMoney", amount |-> amount], r.ret)

\* gameState.unlockColor(colorId)
DoUnlockColor(colorId) ==
    LET r == unlockColor(Cur, colorId)
    IN Commit(r.s, [name |-> "unlockColor", colorId |-> colorId], r.ret)

\* gameState.selectColor(colorId)
DoSelectColor(colorId) ==
    LET r == selectColor(Cur, colorId)
    IN Commit(r.s, [name |-> "selectColor", colorId |-> colorId], r.ret)

\* shopSystem.buyColor(colorId)
DoBuyColor(colorId) ==
    LET r == buyColor(Cur, colorId)
    IN Commit(r.s, [name |-> "buyColor", colorId |-> colorId], r.ret)

\* contractSystem.acceptContract(rankLevel)
DoAcceptContract(rankLevel, draw) ==
    LET r == acceptContract(Cur, targetRank(rankLevel, selectedRankLevel), draw)
    IN Commit(r.s, [name |-> "acceptContract", rankLevel |-> rankLevel,
                    threw |-> r.threw], r.ret)

\* contractSystem.abandonContract()
DoAbandonContract ==
    LET r == abandonContract(Cur)
    IN Commit(r.s, [name |-> "abandonContract"], r.ret)

\* shopSystem.buyUpgrade(upgradeId)
DoBuyUpgrade(upgradeId) ==
    LET r == buyUpgrade(Cur, upgradeId)
    IN Commit(r.s, [name |-> "buyUpgrade", upgradeId |-> upgradeId], r.ret)

\* one firing of the automation timer
DoTick(due) ==
    Commit(tick(Cur, due), [name |-> "tick", due |-> due], TRUE)

\* saveManager.importSave(encoded document)
DoImportSave(data) ==
    LET r == importSave(Cur, data)
    IN Commit(r.s, [name |-> "importSave", present |-> data.present,
                    version |-> data.version], r.ret)

\* saveManager.save(), the page reloaded, saveManager.load() in the new game
DoSaveAndReload ==
    LET r == importSave(NewGame, serialize(Cur))
    IN Commit(r.s, [name |-> "saveAndReload"], r.ret)

\* saveManager.save() and saveManager.load() in the running game
DoSaveAndLoad ==
    LET r == importSave(Cur, serialize(Cur))
    IN Commit(r.s, [name |-> "saveAndLoad"], r.ret)

\* ---- calls and callbacks that involve the clock, a timer or a system field
CurSys ==
    [selectedRankLevel |-> selectedRankLevel, intervalId |-> intervalId,
     lastPaintTime |-> lastPaintTime, autoSaveInterval |-> autoSaveInterval,
     isRunning |-> isRunning, now |-> now, hidden |-> hidden,
     timers |-> timers, timeouts |-> timeouts]

\* UIManager's contractCompleted listener: with auto_start_contract owned and
\* enabled, setTimeout(..., 500) for every contract completed by the call
\* (rank: the rank of the completed contract; other: a contract was accepted
\* since, both kept for observation only)
PollPeriod == 100
AutoStartDelay == 500
AfterListeners(s, sys) ==
    LET done == SelectSeq(s.events, LAMBDA e : e.name = "contractCompleted")
    IN IF done # <<>> /\ isAutomationEnabled(s, "auto_start_contract")
       THEN [sys EXCEPT !.timeouts =
                @ \o [i \in 1..Len(done) |->
                         [at |-> sys.now + AutoStartDelay,
                          rank |-> done[i].contract.rankLevel, other |-> FALSE]]]
       ELSE sys

\* the colours whose painter has work: timer running, master switch on,
\* painter owned, a contract expecting the colour at a cell that lacks it
HasWork(s, sys) ==
    {c \in {getAutoPainterColor(s.upgrades[i].id) : i \in 1..Len(s.upgrades)} \ {NULL} :
        /\ \E id \in DOMAIN sys.timers : sys.timers[id].kind = "tick"
        /\ isAutomationEnabled(s, "auto_painters")
        /\ s.activeContract # NoContract
        /\ PaintTargets(s.grid, s.activeContract.pattern, c) # {}}
\* the first cell in row-major order among those a colour is needed at
RowMajorFirst(g, pattern, c) ==
    LET T == PaintTargets(g, pattern, c)
        y == CHOOSE v \in {u[2] : u \in T} : \A u \in T : v <= u[2]
        x == CHOOSE v \in {u[1] : u \in {w \in T : w[2] = y}} :
                 \A u \in {w \in T : w[2] = y} : v <= u[1]
    IN <<x, y>>
\* since when each painter with work has had the same first cell to paint,
\* counted anew after a manual edit
WaitingAfter(s, sys, manual) ==
    [c \in HasWork(s, sys) |->
        LET cell == RowMajorFirst(s.grid, s.activeContract.pattern, c)
        IN IF ~manual /\ c \in DOMAIN waiting /\ waiting[c].cell = cell
           THEN waiting[c]
           ELSE [since |-> sys.now, cell |-> cell]]

\* the call o has run to completion with its listeners, leaving the game s
\* and the systems sys
CommitTimed(s, o, r, sys, manual) ==
    \E v \in {AfterListeners(s, sys)} :
        /\ CommitGame(s, o, r)
        /\ selectedRankLevel' = v.selectedRankLevel
        /\ intervalId' = v.intervalId
        /\ lastPaintTime' = v.lastPaintTime
        /\ autoSaveInterval' = v.autoSaveInterval
        /\ isRunning' = v.isRunning
        /\ now' = v.now
        /\ hidden' = v.hidden
        /\ timers' = v.timers
        /\ timeouts' = v.timeouts
        /\ waiting' = WaitingAfter(s, v, manual)

\* the instants at which a timer or timeout is to fire
Deadlines ==
    {timers[id].next : id \in DOMAIN timers}
    \cup {timeouts[i].at : i \in 1..Len(timeouts)}

\* time passes, by step at most and not beyond the next deadline; a callback
\* that is due runs before time passes further
DoAdvance(step, horizon) ==
    /\ now < horizon
    /\ \A d \in Deadlines : d > now
    /\ CommitTimed(Cur, [name |-> "advance"], TRUE,
                   [CurSys EXCEPT !.now = Min(now + step,
                        CHOOSE m \in Deadlines \cup {now + step} :
                            \A d \in Deadlines \cup {now + step} : m <= d)],
                   FALSE)

\* setInterval(callback, period) at sys.now: a new entry of the table under an
\* id not in use (the smallest), and clearInterval(id)
FreshId(tab) == CHOOSE id \in 1..(Cardinality(DOMAIN tab) + 1) : id \notin DOMAIN tab
SetInterval(tab, kind, period, t) ==
    [id \in DOMAIN tab \cup {FreshId(tab)} |->
        IF id \in DOMAIN tab THEN tab[id]
        ELSE [kind |-> kind, period |-> period, next |-> t + period]]
ClearInterval(tab, handle) == [id \in DOMAIN tab \ {handle} |-> tab[id]]

\* AutoPainterSystem.start()
startUnguarded(sys) ==
    [sys EXCEPT !.intervalId = FreshId(sys.timers),
                !.timers = SetInterval(sys.timers, "tick", PollPeriod, sys.now)]
start(sys) ==
    IF sys.intervalId # NoTimer THEN sys
    ELSE [sys EXCEPT !.intervalId = FreshId(sys.timers),
                     !.timers = SetInterval(sys.timers, "tick", PollPeriod, sys.now)]
\* AutoPainterSystem.stop()
stop(sys) ==
    IF sys.intervalId = NoTimer THEN sys
    ELSE [sys EXCEPT !.intervalId = NoTimer,
                     !.timers = ClearInterval(sys.timers, sys.intervalId)]
\* SaveManager.stopAutoSave() and startAutoSave(intervalMs)
stopAutoSave(sys) ==
    IF sys.autoSaveInterval = NoTimer THEN sys
    ELSE [sys EXCEPT !.autoSaveInterval = NoTimer,
                     !.timers = ClearInterval(sys.timers, sys.autoSaveInterval)]
startAutoSave(sys, intervalMs) ==
    LET sys1 == stopAutoSave(sys)
    IN [sys1 EXCEPT !.autoSaveInterval = FreshId(sys1.timers),
                    !.timers = SetInterval(sys1.timers, "save", intervalMs, sys1.now)]
\* Game.pause() and Game.resume()
pause(sys) ==
    IF ~sys.isRunning THEN sys ELSE stop([sys EXCEPT !.isRunning = FALSE])
resume(sys) ==
    IF sys.isRunning THEN sys ELSE start([sys EXCEPT !.isRunning = TRUE])

DoStart == CommitTimed(Cur, [name |-> "start"], TRUE, start(CurSys), FALSE)
DoStop == CommitTimed(Cur, [name |-> "stop"], TRUE, stop(CurSys), FALSE)
AutoSaveMs == 30000
DoStartAutoSave ==
    CommitTimed(Cur, [name |-> "startAutoSave"], TRUE,
                startAutoSave(CurSys, AutoSaveMs), FALSE)
DoStopAutoSave ==
    CommitTimed(Cur, [name |-> "stopAutoSave"], TRUE, stopAutoSave(CurSys), FALSE)

\* Game.init() of a new game (no save in localStorage): addMoney(10),
\* startAutoSave(30000), autoPainterSystem.start(), isRunning = true
DoGameInit ==
    CommitTimed(AddMoney(Cur, 10).s, [name |-> "init"], TRUE,
                [start(startAutoSave(CurSys, AutoSaveMs)) EXCEPT !.isRunning = TRUE],
                FALSE)

\* the visibilitychange listener of Game.init: the page is hidden, or shown
DoHide ==
    /\ ~hidden
    /\ CommitTimed(Cur, [name |-> "hide"], TRUE,
                   pause([CurSys EXCEPT !.hidden = TRUE]), FALSE)
DoShow ==
    /\ hidden
    /\ CommitTimed(Cur, [name |-> "show"], TRUE,
                   resume([CurSys EXCEPT !.hidden = FALSE]), FALSE)

\* an interval of the table is due: its callback runs, and its next firing
\* is one period later
Due(kind) == {id \in DOMAIN timers : timers[id].kind = kind /\ timers[id].next <= now}
Rearmed(id) == [timers EXCEPT ![id].next = now + timers[id].period]

\* the automation timer fires: tick()
DoTimerTick == \E id \in Due("tick") :
    LET r == tickAt(Cur, lastPaintTime, now)
    IN CommitTimed(r.s, [name |-> "timerTick", painted |-> r.painted,
                         hidden |-> hidden], TRUE,
                   [CurSys EXCEPT !.lastPaintTime = r.last, !.timers = Rearmed(id)],
                   FALSE)

\* the autosave timer fires: saveManager.save() (localStorage is not part of
\* the state)
DoAutoSave == \E id \in Due("save") :
    CommitTimed(Cur, [name |-> "autoSave", hidden |-> hidden], TRUE,
                [CurSys EXCEPT !.timers = Rearmed(id)], FALSE)

\* the callback of the auto-start timeout registered first among those due:
\* if (!activeContract) contractSystem.acceptContract()
DoAutoStart(draw) ==
    /\ timeouts # <<>>
    /\ timeouts[1].at <= now
    /\ LET r == IF activeContract # NoContract
                THEN [s |-> Cur, ret |-> FALSE]
                ELSE acceptContract(Cur, targetRank(0, selectedRankLevel), draw)
       IN CommitTimed(r.s, [name |-> "autoStart", rank |-> timeouts[1].rank,
                            other |-> timeouts[1].other], r.ret,
                      [CurSys EXCEPT !.timeouts = Tail(timeouts)], FALSE)

\* the New contract button: contractSystem.acceptContract()
DoAcceptButton(draw) ==
    LET r == acceptContract(Cur, targetRank(0, selectedRankLevel), draw)
    IN CommitTimed(r.s, [name |-> "acceptContract", rankLevel |-> 0,
                         threw |-> r.threw], r.ret,
                   [CurSys EXCEPT !.timeouts =
                       [i \in 1..Len(timeouts) |->
                           [timeouts[i] EXCEPT !.other = @ \/ r.ret]]],
                   FALSE)

\* a button of the rank selector (enabled for accessible ranks only)
DoSelectRank(level) ==
    /\ canAccessRank(getRank(level), completedContracts, width, unlockedColors)
    /\ CommitTimed(Cur, [name |-> "selectRank", level |-> level], TRUE,
                   [CurSys EXCEPT !.selectedRankLevel = level], FALSE)

\* the player paints or erases a cell: grid.setCell(x, y, color)
DoManualSetCell(x, y, color) ==
    LET r == GridSetCell(Cur.grid, x, y, color)
    IN CommitTimed(AfterGridCall(Cur, r),
                   [name |-> "setCell", x |-> x, y |-> y, color |-> color,
                    before |-> Len(history)], r.ret, CurSys, TRUE)

\* the master switch of the automation list
DoToggleAutoPainters ==
    LET r == setAutomationEnabled(Cur, "auto_painters",
                                  ~isAutomationEnabled(Cur, "auto_painters"))
    IN CommitTimed(r.s, [name |-> "toggleAutoPainters"], r.ret, CurSys, FALSE)

\* ---- Spec: a game being played (contracts, edits, automation, a reload)
\* the canvas paints the selected colour or erases, here in row 0
SetCell == \E x \in {0, 1, 4}, color \in {selectedColor, NULL} :
    Len(history) < MaxEdits /\ DoSetCell(x, 0, color)
\* a batch that paints or erases the two cells of the rank-1 line
SetLine == \E changes \in {PaintLine, EraseLine} :
    Len(history) <= MaxEdits /\ DoSetCells(changes)
Undo ==
    /\ TRUE          \* offered in every state
    /\ DoUndo
Clear ==
    /\ TRUE
    /\ DoClear
\* the grid grown to 6x6 (column 4 becomes valid), offered while it grows
ExpandSix == width < 6 /\ DoExpandGrid(6, 6)
\* acceptContract() and acceptContract(2), with the generator's colour draw
AcceptContract == \E rankLevel \in {0, 2}, color \in DefaultColors :
    LET targetCells == getComplexityRange(
            getRank(IF rankLevel = 0 THEN getHighestAccessibleRank(Cur)
                    ELSE rankLevel).patternComplexity).min
    IN /\ completedContracts < MaxCompleted
       /\ CanDraw(Cur, rankLevel, LineDraw(targetCells, color))
       /\ DoAcceptContract(rankLevel, LineDraw(targetCells, color))
AbandonContract ==
    /\ TRUE
    /\ DoAbandonContract
\* the automation timer fires; due: the painters whose interval has elapsed
Tick == \E due \in SUBSET PainterIds :
    Len(history) < MaxEdits /\ DoTick(due)
\* the mid-contract save is imported (it brings the black auto-painter)
Reload ==
    /\ TRUE
    /\ DoImportSave(DocMidContract)

Next ==
    \/ SetCell
    \/ SetLine
    \/ Undo
    \/ Clear
    \/ ExpandSix
    \/ AcceptContract
    \/ AbandonContract
    \/ Tick
    \/ Reload

Spec == Init /\ [][Next]_vars

\* ---- SpecGrid: the Grid operations, with valid and invalid arguments
SetCellAny == \E x \in XIn, color \in ColorIn :
    Len(history) < MaxEdits /\ DoSetCell(x, 0, color)
SetCells == \E changes \in BatchIn :
    Len(history) < MaxEdits /\ DoSetCells(changes)
ExpandGridCmd == \E newWidth \in SizeIn, newHeight \in SizeIn :
    gridLevel < MaxGridLevel /\ DoExpandGrid(newWidth, newHeight)
ImportGrid ==
    /\ TRUE
    /\ \E data \in {DocOldVersion, DocOutOfRange, DocLegacy} : DoImportSave(data)

NextGrid ==
    \/ SetCellAny
    \/ SetCells
    \/ Undo
    \/ Clear
    \/ ExpandGridCmd
    \/ ImportGrid

SpecGrid == Init /\ [][NextGrid]_vars

\* ---- SpecMoney: everything that touches money
AddMoneyCmd == \E amount \in AmountIn :
    money + amount <= MaxMoney /\ DoAddMoney(amount)
SpendMoneyCmd ==
    /\ TRUE
    /\ \E amount \in AmountIn : DoSpendMoney(amount)
BuyGridExpansion == gridLevel < MaxGridLevel /\ DoBuyGridExpansion
FillLine == Len(history) < MaxEdits /\ DoSetCells(PaintLine)
AcceptBlack ==
    /\ completedContracts < MaxCompleted
    /\ CanDraw(Cur, 0, LineDraw(2, "black"))
    /\ DoAcceptContract(0, LineDraw(2, "black"))
ImportMoney ==
    /\ TRUE
    /\ \E data \in {DocMidContract, DocNull, DocNegativeMoney} :
           DoImportSave(data)

NextMoney ==
    \/ AddMoneyCmd
    \/ SpendMoneyCmd
    \/ BuyGridExpansion
    \/ AcceptBlack
    \/ FillLine
    \/ ImportMoney

SpecMoney == Init /\ [][NextMoney]_vars

\* ---- SpecHist: one cell edited over and over, past the history capacity
ToggleCell ==
    /\ TRUE
    /\ \E color \in {"black", NULL} : DoSetCell(0, 0, color)
ToggleBatch ==
    /\ TRUE
    /\ DoSetCells(<< [x |-> 0, y |-> 0, color |-> "black"],
                     [x |-> 0, y |-> 0, color |-> NULL],
                     [x |-> 0, y |-> 0, color |-> "black"] >>)
ExpandSame == gridLevel < MaxGridLevel /\ DoExpandGrid(4, 4)

NextHist ==
    \/ ToggleCell
    \/ ToggleBatch
    \/ Undo
    \/ Clear
    \/ ExpandSame

SpecHist == Init /\ [][NextHist]_vars

\* ---- SpecShop: a shop session (colours, grid tiers), the palette, a reload
\* colour ids offered: free, priced, unaffordable here, and not in the catalog
ColorIdIn == {"black", "white", "red", "gold", "teal"}
EarnMoney == \E amount \in {50, 100} :
    money + amount <= MaxShopMoney /\ DoAddMoney(amount)
SelectColorCmd ==
    /\ TRUE
    /\ \E colorId \in ColorIdIn : DoSelectColor(colorId)
UnlockColorCmd ==
    /\ TRUE
    /\ \E colorId \in {"white", "red"} : DoUnlockColor(colorId)
BuyColorCmd ==
    /\ TRUE
    /\ \E colorId \in ColorIdIn : DoBuyColor(colorId)
BuyNextTier == gridLevel <= MaxGridLevel /\ DoBuyGridExpansion
\* gameState.expandGrid called directly, to a tier size and past it
ExpandDirect == \E size \in {6, 10} :
    gridLevel < MaxGridLevel /\ DoExpandGrid(size, size)
ImportColours ==
    /\ TRUE
    /\ DoImportSave(DocColours)

NextShop ==
    \/ EarnMoney
    \/ SelectColorCmd
    \/ UnlockColorCmd
    \/ BuyColorCmd
    \/ BuyNextTier
    \/ ExpandDirect
    \/ ImportColours

SpecShop == Init /\ [][NextShop]_vars

\* ---- SpecGen: contracts generated at several stages of a game
\* the ten colours of the rank catalog
RankColors == {RANKS[getMaxRank].requiredColors[i] :
                  i \in 1..Len(RANKS[getMaxRank].requiredColors)}

\* stages a game passes through: contracts completed, grid size bought,
\* colours unlocked, money_boost level bought; and the rank levels requested
\* there, 0 for acceptContract() without a level
GenSnapshots ==
    { [completed |-> 0, size |-> 4, colors |-> DefaultColors, boost |-> 0,
       requests |-> {0, 2, 11}],
      [completed |-> 5, size |-> 4, colors |-> DefaultColors, boost |-> 1,
       requests |-> {0, 5}],
      [completed |-> 10, size |-> 6, colors |-> DefaultColors, boost |-> 0,
       requests |-> {0, 1}],
      [completed |-> 18, size |-> 6, colors |-> DefaultColors \cup {"red"},
       boost |-> 2, requests |-> {0, 2}],
      [completed |-> 150, size |-> 20, colors |-> RankColors, boost |-> 1,
       requests |-> {0}] }

\* the gridLevel at which buyGridExpansion has brought the grid to size
LevelOfSize(size) ==
    GRID_EXPANSIONS[CHOOSE i \in 1..Len(GRID_EXPANSIONS) :
                       GRID_EXPANSIONS[i].size = size].level

InitGen ==
    \E snap \in GenSnapshots :
        /\ width = snap.size
        /\ height = snap.size
        /\ cells = EmptyCells
        /\ history = <<>>
        /\ gridLevel = LevelOfSize(snap.size)
        /\ money = 0
        /\ unlockedColors = snap.colors
        /\ selectedColor = "black"
        /\ upgrades = IF snap.boost = 0 THEN <<>>
                      ELSE << [id |-> "money_boost", level |-> snap.boost] >>
        /\ automationEnabled = IF snap.boost = 0 THEN NoFlags
                               ELSE [k \in {"money_boost"} |-> TRUE]
        /\ activeContract = NoContract
        /\ completedContracts = snap.completed
        /\ stats = [totalContractsCompleted |-> snap.completed]
        /\ op = [name |-> "new"]
        /\ ret = FALSE
        /\ events = <<>>
        /\ observed = <<>>
        /\ preCells = EmptyCells
        /\ refHistory = <<>>
        /\ NewSystems

\* the draws offered for a request: every targetCells, type and colour of the
\* rank with every coin and every r1, r2 below RandSteps; a type that falls to
\* generateScattered gets the stream that fills the grid row by row
OwnGenerator == {"line", "dot_cluster", "corner", "square", "L_shape", "T_shape",
                 "cross", "diagonal"}
DrawsFor(s, rankLevel) ==
    LET level == IF rankLevel = 0 THEN getHighestAccessibleRank(s) ELSE rankLevel
        rank == getRank(level)
        cs == PatternColors(s, rank)
        range == getComplexityRange(rank.patternComplexity)
        types == getPatternTypesForComplexity(rank.patternComplexity)
    IN { [targetCells |-> n, type |-> ty, color |-> c, coin |-> b,
          r1 |-> a, r2 |-> q, stream |-> <<>>] :
            n \in range.min..range.max,
            ty \in {types[i] : i \in 1..Len(types)} \cap OwnGenerator,
            c \in {cs[i] : i \in 1..Len(cs)},
            b \in BOOLEAN,
            a \in 0..(RandSteps - 1),
            q \in 0..(RandSteps - 1) }
       \cup
       { RowMajorDraw(ty, range.min, s.grid.width, cs[1]) :
            ty \in {types[i] : i \in 1..Len(types)} \ (OwnGenerator \cup NotModelled) }

\* acceptContract(rankLevel) at a stage, for each level requested there
GenerateAny == \E snap \in GenSnapshots :
    /\ op.name = "new"
    /\ completedContracts = snap.completed
    /\ width = snap.size
    /\ \E rankLevel \in snap.requests :
          \E draw \in DrawsFor(Cur, rankLevel) :
              /\ CanDraw(Cur, rankLevel, draw)
              /\ DoAcceptContract(rankLevel, draw)
Discard == activeContract # NoContract /\ DoAbandonContract

\* the one setCells batch that paints every coloured cell of the pattern
PatternBatch(pattern, w, h) ==
    SelectSeq([i \in 1..(w * h) |->
                  [x |-> (i - 1) % w, y |-> (i - 1) \div w,
                   color |-> pattern[((i - 1) \div w) + 1][((i - 1) % w) + 1]]],
              LAMBDA change : change.color # NULL)
PaintPattern ==
    /\ activeContract # NoContract
    /\ Len(activeContract.pattern) \in 1..height
    /\ \A y \in 1..Len(activeContract.pattern) :
          /\ Len(activeContract.pattern[y]) = Len(activeContract.pattern[1])
          /\ Len(activeContract.pattern[y]) <= width
    /\ DoSetCells(PatternBatch(activeContract.pattern,
                               Len(activeContract.pattern[1]),
                               Len(activeContract.pattern)))

NextGen ==
    \/ GenerateAny
    \/ Discard
    \/ PaintPattern

SpecGen == InitGen /\ [][NextGen]_vars

\* ---- SpecRank: games at every stage of the rank ladder, advanced by commands
\* completedContracts one short of a rank's contractsRequired, grid sizes of
\* the shop's tiers, the colours of the first ranks and all but one of the last
CompletedIn == {4, 17, 149}
StageSizeIn == {4, 6, 20}
ColorsIn ==
    { DefaultColors, DefaultColors \cup {"red"}, RankColors \ {"pink"} }

InitRank ==
    \E completed \in CompletedIn, size \in StageSizeIn, colors \in ColorsIn :
        /\ width = size
        /\ height = size
        /\ cells = EmptyCells
        /\ history = <<>>
        /\ gridLevel = LevelOfSize(size)
        /\ money = 0
        /\ unlockedColors = colors
        /\ selectedColor = "black"
        /\ upgrades = <<>>
        /\ automationEnabled = NoFlags
        /\ activeContract = NoContract
        /\ completedContracts = completed
        /\ stats = [totalContractsCompleted |-> completed]
        /\ op = [name |-> "new"]
        /\ ret = FALSE
        /\ events = <<>>
        /\ observed = <<>>
        /\ preCells = EmptyCells
        /\ refHistory = <<>>
        /\ NewSystems

\* acceptContract() at an offered stage, the pattern of the fewest cells in
\* black at the first position
TakeContract ==
    /\ activeContract = NoContract
    /\ completedContracts \in CompletedIn
    /\ \E draw \in DrawsFor(Cur, 0) :
          /\ draw.targetCells =
                getComplexityRange(
                    getRank(getHighestAccessibleRank(Cur)).patternComplexity).min
          /\ draw.color = "black"
          /\ draw.r1 = 0
          /\ draw.r2 = 0
          /\ draw.coin = (draw.stream = <<>>)
          /\ CanDraw(Cur, 0, draw)
          /\ DoAcceptContract(0, draw)
\* between contracts: expandGrid to another tier's size or to the refused
\* 3x3, and unlockColor of a colour some rank requires or of one none does
Grow ==
    /\ activeContract = NoContract
    /\ \E size \in (StageSizeIn \cup {3}) \ {width} : DoExpandGrid(size, size)
Unlock ==
    /\ activeContract = NoContract
    /\ \E colorId \in {"red", "pink", "gold"} : DoUnlockColor(colorId)

NextRank ==
    \/ TakeContract
    \/ PaintPattern
    \/ Grow
    \/ Unlock

SpecRank == InitRank /\ [][NextRank]_vars

\* ---- SpecUpg: a balance spent on one line of upgrades
\* the balances a player arrives with
BalanceIn == {1000, 2000000, 50000000}
\* every catalog id, painters of an unlocked, a purchasable and a locked
\* colour, and an id no catalog has
UpgradeIdIn ==
    DOMAIN UPGRADES
        \cup {"auto_painter_black", "auto_painter_red", "auto_painter_gold", "warp_drive"}

InitUpg ==
    \E balance \in BalanceIn :
        /\ width = StartSize
        /\ height = StartSize
        /\ cells = EmptyCells
        /\ history = <<>>
        /\ gridLevel = 1
        /\ money = balance
        /\ unlockedColors = DefaultColors
        /\ selectedColor = "black"
        /\ upgrades = <<>>
        /\ automationEnabled = NoFlags
        /\ activeContract = NoContract
        /\ completedContracts = 0
        /\ stats = DefaultStats
        /\ op = [name |-> "new"]
        /\ ret = FALSE
        /\ events = <<>>
        /\ observed = <<>>
        /\ preCells = EmptyCells
        /\ refHistory = <<>>
        /\ NewSystems

\* buyUpgrade of the line begun, or of any id while none is owned
BuyLine == \E upgradeId \in UpgradeIdIn :
    /\ IF upgrades = <<>> THEN TRUE ELSE upgrades[1].id = upgradeId
    /\ DoBuyUpgrade(upgradeId)
UnlockRed ==
    /\ upgrades = <<>>
    /\ DoUnlockColor("red")

NextUpg ==
    \/ BuyLine
    \/ UnlockRed

SpecUpg == InitUpg /\ [][NextUpg]_vars

\* ---- SpecInterval: a balance spent on a painter and on speed_boost, in any order
BuyPainter ==
    /\ TRUE
    /\ DoBuyUpgrade("auto_painter_black")
BuySpeedBoost ==
    /\ TRUE
    /\ DoBuyUpgrade("speed_boost")

NextInterval ==
    \/ BuyPainter
    \/ BuySpeedBoost

SpecInterval == InitUpg /\ [][NextInterval]_vars

\* ---- SpecAuto: a saved game with a painter, reopened and left to automation
\* the saved games: speed_boost level, contracts completed and
\* auto_start_contract level when saved
AutoSnapshots ==
    {[boost |-> 10, completed |-> 0, autoStart |-> 0],
     [boost |-> 3, completed |-> 4, autoStart |-> 0]}
StartSnapshots ==
    {[boost |-> 10, completed |-> 0, autoStart |-> 1],
     [boost |-> 10, completed |-> 4, autoStart |-> 1]}

\* after Game.init() has loaded the save snap and started both timers
Reopened(snap) ==
    /\ width = StartSize
    /\ height = StartSize
    /\ cells = EmptyCells
    /\ history = <<>>
    /\ gridLevel = 1
    /\ money = 0
    /\ unlockedColors = DefaultColors
    /\ selectedColor = "black"
    /\ upgrades = << [id |-> "auto_painter_black", level |-> 5],
                     [id |-> "speed_boost", level |-> snap.boost] >>
                  \o (IF snap.autoStart = 0 THEN <<>>
                      ELSE << [id |-> "auto_start_contract",
                               level |-> snap.autoStart] >>)
    /\ automationEnabled =
           [k \in {"auto_painter_black", "speed_boost"}
                  \cup (IF snap.autoStart = 0 THEN {} ELSE {"auto_start_contract"})
               |-> TRUE]
    /\ activeContract = NoContract
    /\ completedContracts = snap.completed
    /\ stats = [totalContractsCompleted |-> snap.completed]
    /\ selectedRankLevel = 0
    /\ intervalId = 2
    /\ lastPaintTime = << >>
    /\ autoSaveInterval = 1
    /\ isRunning = TRUE
    /\ now = 0
    /\ hidden = FALSE
    /\ timers = start(startAutoSave([NewSys EXCEPT !.isRunning = TRUE],
                                    AutoSaveMs)).timers
    /\ timeouts = <<>>
    /\ waiting = << >>
    /\ op = [name |-> "new"]
    /\ ret = FALSE
    /\ events = <<>>
    /\ observed = <<>>
    /\ preCells = EmptyCells
    /\ refHistory = <<>>

InitAuto == \E snap \in AutoSnapshots : Reopened(snap)

\* the patterns Math.random() is let to pick: a black line of 2 or of 4 cells
AutoDraws == {LineDraw(2, "black"), LineDraw(4, "black")}

\* the player accepts one contract shortly after the load, then disturbs the
\* painter in one way: the master switch before the first cell is painted, or
\* hiding the page or editing after it
Untoggled == "auto_painters" \notin DOMAIN automationEnabled

TimePasses ==
    /\ TRUE
    /\ DoAdvance(ClockStep, MaxClock)
TimerTick ==
    /\ TRUE
    /\ DoTimerTick
AcceptButton == \E draw \in AutoDraws :
    /\ activeContract = NoContract
    /\ lastPaintTime = << >>
    /\ now <= 3 * ClockStep
    /\ CanDraw(Cur, targetRank(0, selectedRankLevel), draw)
    /\ DoAcceptButton(draw)
ManualEdit == \E x \in {0, 1}, color \in {"black", NULL} :
    /\ activeContract # NoContract
    /\ Untoggled
    /\ ~hidden
    /\ Len(history) = 1
    /\ DoManualSetCell(x, 0, color)
HidePage ==
    /\ activeContract # NoContract
    /\ Untoggled
    /\ Len(history) = 1
    /\ DoHide
ShowPage ==
    /\ TRUE
    /\ DoShow
ToggleAutoPainters ==
    /\ activeContract # NoContract
    /\ IF isAutomationEnabled(Cur, "auto_painters") THEN history = <<>> ELSE TRUE
    /\ DoToggleAutoPainters

NextAuto ==
    \/ TimePasses
    \/ TimerTick
    \/ AcceptButton
    \/ ManualEdit
    \/ HidePage
    \/ ShowPage
    \/ ToggleAutoPainters

SpecAuto == InitAuto /\ [][NextAuto]_vars

\* ---- SpecStart: a saved game with auto_start_contract, reopened
InitStart == \E snap \in StartSnapshots : Reopened(snap)

StartTimePasses ==
    /\ TRUE
    /\ DoAdvance(ClockStep, MaxStartClock)
StartAccept == \E draw \in AutoDraws :
    /\ activeContract = NoContract
    /\ IF lastPaintTime = << >> THEN now <= 3 * ClockStep ELSE timeouts # <<>>
    /\ CanDraw(Cur, targetRank(0, selectedRankLevel), draw)
    /\ DoAcceptButton(draw)
AutoStart == \E draw \in AutoDraws :
    /\ timeouts # <<>>
    /\ CanDraw(Cur, targetRank(0, selectedRankLevel), draw)
    /\ DoAutoStart(draw)
SelectRank == \E level \in {1} :
    /\ op.name = "new"
    /\ DoSelectRank(level)

NextStart ==
    \/ StartTimePasses
    \/ TimerTick
    \/ StartAccept
    \/ AutoStart
    \/ SelectRank

SpecStart == InitStart /\ [][NextStart]_vars

\* ---- SpecTimers: a new game opened, its page hidden and shown, its timers
\* started and stopped
Opened == op.name # "new"

GameInit == op.name = "new" /\ DoGameInit
FarTimePasses == Opened /\ DoAdvance(FarStep, MaxFarClock)
IdleTick == Opened /\ DoTimerTick
AutoSave == Opened /\ DoAutoSave
Hide == Opened /\ DoHide
Show == Opened /\ DoShow
\* direct calls, made while the page is shown and shortly after the load
StartPainter == Opened /\ ~hidden /\ now <= PollPeriod /\ DoStart
StopPainter == Opened /\ ~hidden /\ now <= PollPeriod /\ DoStop
StartAutoSave == Opened /\ ~hidden /\ now <= PollPeriod /\ DoStartAutoSave
StopAutoSave == Opened /\ ~hidden /\ now <= PollPeriod /\ DoStopAutoSave

NextTimers ==
    \/ GameInit
    \/ FarTimePasses
    \/ IdleTick
    \/ AutoSave
    \/ Hide
    \/ Show
    \/ StartPainter
    \/ StopPainter
    \/ StartAutoSave
    \/ StopAutoSave

SpecTimers == Init /\ [][NextTimers]_vars

\* ---- SpecMemory: undo_buffer bought, then one cell edited over and over
BuyMemory == history = <<>> /\ DoBuyUpgrade("undo_buffer")
EditCell == \E color \in {"black", NULL} :
    /\ GetCell(Cur.grid, 0, 0) # color
    /\ DoSetCell(0, 0, color)
UndoEdit == history # <<>> /\ DoUndo

NextMemory ==
    \/ BuyMemory
    \/ EditCell
    \/ UndoEdit

SpecMemory == InitUpg /\ [][NextMemory]_vars

\* ---- SpecSave: a game played, saved, reloaded and fed foreign documents
\* the session: money earned, hold_to_paint bought, white selected, the grid
\* grown to 6x6, a contract accepted, cells of its row painted and erased
EarnFifty == money = 0 /\ upgrades = <<>> /\ DoAddMoney(50)
BuyHold == upgrades = <<>> /\ DoBuyUpgrade("hold_to_paint")
PickWhite == upgrades # <<>> /\ selectedColor = "black" /\ DoSelectColor("white")
GrowSix ==
    /\ selectedColor = "white"
    /\ width = StartSize
    /\ gridLevel < MaxGridLevel
    /\ DoExpandGrid(6, 6)
AcceptLine ==
    /\ width = 6
    /\ completedContracts < MaxCompleted
    /\ CanDraw(Cur, 0, LineDraw(3, "white"))
    /\ DoAcceptContract(0, LineDraw(3, "white"))
PaintCell == \E x \in {0, 1}, color \in {selectedColor, NULL} :
    /\ activeContract # NoContract
    /\ Len(history) < MaxEdits
    /\ DoSetCell(x, 0, color)
ImportBad ==
    /\ TRUE
    /\ \E data \in {DocOldVersion, DocFuture, DocNull, DocNoGrid} : DoImportSave(data)
\* the document with the broken cell list, while the undo history is the one
\* the events told of
ImportBroken ==
    /\ Len(refHistory) <= Len(history)
    /\ DoImportSave(DocBrokenCells)
SaveAndReload ==
    /\ TRUE
    /\ DoSaveAndReload
SaveAndLoad ==
    /\ TRUE
    /\ DoSaveAndLoad

NextSave ==
    \/ EarnFifty
    \/ BuyHold
    \/ PickWhite
    \/ GrowSix
    \/ AcceptLine
    \/ PaintCell
    \/ ImportBad
    \/ ImportBroken
    \/ SaveAndReload
    \/ SaveAndLoad

SpecSave == Init /\ [][NextSave]_vars

\* ---- SpecTick: saved games reopened, their painters at work
\* a contract of a rank that mixes colours, three cells of row 0
MixedContract ==
    [rankLevel |-> 1,
     pattern |-> [y \in 1..StartSize |->
                     IF y = 1 THEN <<"black", "white", "black", NULL>>
                     ELSE [x \in 1..StartSize |-> NULL]],
     reward |-> 3, cellCount |-> 3]

\* the saved games: the upgrades owned, the contract active and the cells
\* filled when saved: no upgrade at all; two fast painters on a mixed
\* contract; two painters of different speed and no contract
FastPainters ==
    << [id |-> "auto_painter_black", level |-> 5],
       [id |-> "auto_painter_white", level |-> 5],
       [id |-> "speed_boost", level |-> 10] >>
SlowPainters ==
    << [id |-> "auto_painter_black", level |-> 5],
       [id |-> "auto_painter_white", level |-> 4],
       [id |-> "speed_boost", level |-> 3] >>
TickSnapshots ==
    {[ups |-> <<>>, contract |-> NoContract, cells |-> EmptyCells],
     [ups |-> FastPainters, contract |-> MixedContract, cells |-> EmptyCells],
     [ups |-> SlowPainters, contract |-> NoContract, cells |-> EmptyCells]}

\* after Game.init() has loaded the save snap and started both timers
Resumed(snap) ==
    /\ width = StartSize
    /\ height = StartSize
    /\ cells = snap.cells
    /\ history = <<>>
    /\ gridLevel = 1
    /\ money = 0
    /\ unlockedColors = DefaultColors
    /\ selectedColor = "black"
    /\ upgrades = snap.ups
    /\ automationEnabled = [k \in {snap.ups[i].id : i \in 1..Len(snap.ups)} |-> TRUE]
    /\ activeContract = snap.contract
    /\ completedContracts = 0
    /\ stats = DefaultStats
    /\ selectedRankLevel = 0
    /\ intervalId = 2
    /\ lastPaintTime = << >>
    /\ autoSaveInterval = 1
    /\ isRunning = TRUE
    /\ now = 0
    /\ hidden = FALSE
    /\ timers = start(startAutoSave([NewSys EXCEPT !.isRunning = TRUE],
                                    AutoSaveMs)).timers
    /\ timeouts = <<>>
    /\ waiting = << >>
    /\ op = [name |-> "new"]
    /\ ret = FALSE
    /\ events = <<>>
    /\ observed = <<>>
    /\ preCells = EmptyCells
    /\ refHistory = <<>>

InitTick == \E snap \in TickSnapshots : Resumed(snap)

\* the patterns Math.random() is let to pick: a line of 2 cells in either
\* default colour
TickDraws == {LineDraw(2, "black"), LineDraw(2, "white")}

\* the player accepts a contract shortly after the load, flips the master
\* switch, paints white in row 0 once a painter has painted, or undoes a
\* painter's cell
TickAccept == \E draw \in TickDraws :
    /\ activeContract = NoContract
    /\ now <= 3 * ClockStep
    /\ CanDraw(Cur, targetRank(0, selectedRankLevel), draw)
    /\ DoAcceptButton(draw)
TickEdit == \E x \in {0, 3} :
    /\ activeContract # NoContract
    /\ Untoggled
    /\ Len(history) = 1
    /\ op.name = "timerTick"
    /\ DoManualSetCell(x, 0, "white")
TickToggle ==
    /\ IF isAutomationEnabled(Cur, "auto_painters") THEN history = <<>> ELSE TRUE
    /\ DoToggleAutoPainters
TickUndo ==
    /\ op.name = "timerTick"
    /\ op.painted # {}
    /\ DoUndo

NextTick ==
    \/ TimePasses
    \/ TimerTick
    \/ TickAccept
    \/ TickEdit
    \/ TickToggle
    \/ TickUndo

SpecTick == InitTick /\ [][NextTick]_vars

\* ---- SpecProgress: contracts painted by hand, the grid grown meanwhile
\* a late stage of a game: 150 contracts completed, the 20x20 grid, the ten
\* colours of the rank catalog; and a new game
LateStage ==
    /\ width = 20
    /\ height = 20
    /\ cells = EmptyCells
    /\ history = <<>>
    /\ gridLevel = LevelOfSize(20)
    /\ money = 0
    /\ unlockedColors = RankColors
    /\ selectedColor = "black"
    /\ upgrades = <<>>
    /\ automationEnabled = NoFlags
    /\ activeContract = NoContract
    /\ completedContracts = 150
    /\ stats = [totalContractsCompleted |-> 150]
    /\ op = [name |-> "new"]
    /\ ret = FALSE
    /\ events = <<>>
    /\ observed = <<>>
    /\ preCells = EmptyCells
    /\ refHistory = <<>>
    /\ NewSystems
InitProgress == Init \/ LateStage

\* a line of 2 or 3 black cells on the small grid; 40 cells filling the first
\* two rows of the 20x20 grid (a type served by generateScattered)
ProgressDraws ==
    IF width = 20
    THEN {RowMajorDraw("full_artwork", 40, 20, "black")}
    ELSE {LineDraw(2, "black"), LineDraw(3, "black")}

ProgressAccept == \E draw \in ProgressDraws :
    /\ activeContract = NoContract
    /\ completedContracts \in {0, 150}
    /\ CanDraw(Cur, 0, draw)
    /\ DoAcceptContract(0, draw)
\* the player paints the next cell the pattern asks for
PaintExpected ==
    /\ activeContract # NoContract
    /\ PaintTargets(Cur.grid, activeContract.pattern, "black") # {}
    /\ LET t == FirstInScan(PaintTargets(Cur.grid, activeContract.pattern, "black"))
       IN DoSetCell(t[1], t[2], "black")
\* the player paints or erases a cell of row 0 or row 3 next to the pattern
PaintBeside == \E x \in {3, 4}, y \in {0, 3}, color \in {"black", NULL} :
    /\ activeContract # NoContract
    /\ width < 20
    /\ Len(history) < MaxStrokes
    /\ DoSetCell(x, y, color)
EraseFirst ==
    /\ activeContract # NoContract
    /\ width < 20
    /\ Len(history) < MaxStrokes
    /\ DoSetCell(0, 0, NULL)
GrowMeanwhile ==
    /\ activeContract # NoContract
    /\ width = StartSize
    /\ DoExpandGrid(6, 6)

NextProgress ==
    \/ ProgressAccept
    \/ PaintExpected
    \/ PaintBeside
    \/ EraseFirst
    \/ GrowMeanwhile

SpecProgress == InitProgress /\ [][NextProgress]_vars

\* ---- SpecLive: saved games reopened and left to their painters
\* the saved games: the mixed contract with two fast painters, saved with an
\* empty grid, with white at (0,0) where black is expected, and with white at
\* (3,0) where nothing is expected; the mixed contract with the black painter
\* only; two slower painters and no contract
LiveSnapshots ==
    {[ups |-> FastPainters, contract |-> MixedContract, cells |-> EmptyCells],
     [ups |-> FastPainters, contract |-> MixedContract,
      cells |-> [k \in {<<0, 0>>} |-> "white"]],
     [ups |-> FastPainters, contract |-> MixedContract,
      cells |-> [k \in {<<3, 0>>} |-> "white"]],
     [ups |-> << [id |-> "auto_painter_black", level |-> 5],
                 [id |-> "speed_boost", level |-> 10] >>,
      contract |-> MixedContract, cells |-> EmptyCells],
     [ups |-> SlowPainters, contract |-> NoContract, cells |-> EmptyCells]}

InitLive == \E snap \in LiveSnapshots : Resumed(snap)

\* the player accepts a contract shortly after the load and touches nothing
\* else; the page stays visible, so the browser keeps firing the automation
\* timer every 100 ms as time passes
LiveAccept == \E draw \in TickDraws :
    /\ activeContract = NoContract
    /\ now <= 3 * ClockStep
    /\ CanDraw(Cur, targetRank(0, selectedRankLevel), draw)
    /\ DoAcceptButton(draw)

\* The session has no end. The code reads the clock only in differences: tick
\* compares now - lastPaintTime[c] with an interval, and the browser compares a
\* timer's deadline with the clock. Two states that differ by a translation of
\* every instant therefore have the same future, and the unbounded clock is
\* kept in a finite range by translating all instants back by FoldBack (a
\* whole number of poll periods) once the clock has reached LiveHorizon. A
\* last-paint time more than FoldBack before that is kept at 0: no interval
\* exceeds baseInterval (both factors of getInterval are at most 1), so such a
\* paint is at least baseInterval old and stays older than every interval.
FoldBack == 2 * PollPeriod
LiveHorizon == AUTO_PAINTER_CONFIG.baseInterval + FoldBack
Earlier(t) == IF t >= FoldBack THEN t - FoldBack ELSE 0
LiveTimePasses ==
    /\ TRUE
    /\ DoAdvance(ClockStep, LiveHorizon)
ClockFolds ==
    /\ now >= LiveHorizon
    /\ \A d \in Deadlines : d > now
    /\ now' = now - FoldBack
    /\ timers' = [id \in DOMAIN timers |->
                     [timers[id] EXCEPT !.next = @ - FoldBack]]
    /\ timeouts' = [i \in 1..Len(timeouts) |->
                       [timeouts[i] EXCEPT !.at = @ - FoldBack]]
    /\ lastPaintTime' = [c \in DOMAIN lastPaintTime |-> Earlier(lastPaintTime[c])]
    /\ waiting' = [c \in DOMAIN waiting |->
                      [waiting[c] EXCEPT !.since = Earlier(@)]]
    /\ UNCHANGED <<gridVars, stateVars, obsVars, selectedRankLevel, intervalId,
                   autoSaveInterval, isRunning, hidden>>
LiveAutoSave ==
    /\ TRUE
    /\ DoAutoSave

NextLive ==
    \/ LiveTimePasses
    \/ ClockFolds
    \/ TimerTick
    \/ LiveAutoSave
    \/ LiveAccept

\* Scheduling: time goes on, and the browser runs the callback of a timer that
\* is due (setInterval re-arms it, so a run never stutters). The fairness of
\* the tick is weak fairness with its enabledness, a tick timer being due,
\* written out.
TickIsDue == Due("tick") # {}
TickFairness == []<>(~TickIsDue) \/ []<><<TimerTick>>_vars

SpecLive ==
    /\ InitLive
    /\ [][NextLive]_vars
    /\ WF_vars(LiveTimePasses)
    /\ WF_vars(ClockFolds)
    /\ WF_vars(LiveAutoSave)
    /\ TickFairness

\* ==================================================================== claims
HasEvent(evs, n) == \E i \in 1..Len(evs) : evs[i].name = n
CountEvent(evs, n) == Cardinality({i \in 1..Len(evs) : evs[i].name = n})
MutationOps == {"setCell", "setCells", "undo", "tick"}

RECURSIVE SumDeltas(_)
SumDeltas(evs) ==
    IF evs = <<>> THEN 0
    ELSE (IF Head(evs).name = "moneyChanged" THEN Head(evs).delta ELSE 0)
         + SumDeltas(Tail(evs))

\* C1: for an active contract and a cell mutation (setCell, setCells, undo, an
\* auto-painter paint), the contract is completed by the call if and only if
\* the grid the mutation produced equals the pattern at every grid coordinate;
\* a grid with exactly one extra filled cell leaves the contract active.
C1_CompletedIffExactMatch ==
    [][ op'.name \in MutationOps =>
          \A i \in 1..Len(observed') :
              observed'[i].active =>
                  /\ observed'[i].matches <=>
                        /\ HasEvent(events', "contractCompleted")
                        /\ activeContract' = NoContract
                        /\ completedContracts' = completedContracts + 1
                        /\ \A j \in (i + 1)..Len(observed') : ~observed'[j].active
                  /\ (observed'[i].extra = 1 /\ observed'[i].missing = 0
                      /\ i = Len(observed'))
                        => activeContract' = activeContract ]_vars

C1_Witness ==
    /\ op.name \in MutationOps
    /\ ret
    /\ observed # <<>>
    /\ Last(observed).active
    /\ Last(observed).extra = 1
    /\ Last(observed).missing = 0
    /\ activeContract # NoContract

\* C2: when an active contract completes, money grows by exactly its reward,
\* activeContract becomes null, completedContracts and
\* stats.totalContractsCompleted grow by exactly 1, the grid is left without
\* filled cells, and exactly one contractCompleted event carrying that
\* contract is emitted.
C2_Completes ==
    \/ HasEvent(events', "contractCompleted")
    \/ /\ op'.name \in MutationOps
       /\ \E i \in 1..Len(observed') :
              observed'[i].active /\ observed'[i].matches

C2_CompletionEffectsOnce ==
    [][ C2_Completes =>
          /\ activeContract # NoContract
          /\ money' = money + activeContract.reward
          /\ SumDeltas(events') = activeContract.reward
          /\ CountEvent(events', "moneyChanged") = 1
          /\ activeContract' = NoContract
          /\ completedContracts' = completedContracts + 1
          /\ stats'.totalContractsCompleted = stats.totalContractsCompleted + 1
          /\ DOMAIN cells' = {}
          /\ CountEvent(events', "contractCompleted") = 1
          /\ \A i \in 1..Len(events') :
                 events'[i].name = "contractCompleted"
                     => events'[i].contract = activeContract ]_vars

C2_Witness ==
    /\ op.name \in MutationOps
    /\ HasEvent(events, "contractCompleted")
    /\ activeContract = NoContract
    /\ completedContracts = 1
    /\ money = 2
    /\ DOMAIN preCells # {}

\* C3: a subscriber to the outward cellChanged / cellsChanged event never
\* sees the grid exactly matching the active contract's pattern while
\* activeContract is still set.
C3_NoStaleStatusObserved ==
    \A i \in 1..Len(observed) : ~(observed[i].active /\ observed[i].matches)

C5_HistoryIsMostRecentEdits ==
    /\ Len(history) <= maxHistory
    /\ history = refHistory

C5_Witness ==
    /\ Len(history) = maxHistory
    /\ \/ op.name = "setCell" /\ ret /\ op.before = maxHistory
       \/ op.name = "setCells" /\ op.before + op.count > maxHistory

\* C6: every coordinate stored in the sparse cell map lies inside the grid,
\* after any sequence of Grid operations including deserialize in either
\* format.
C6_StoredCellsInBounds ==
    \A k \in DOMAIN cells :
        k[1] >= 0 /\ k[1] < width /\ k[2] >= 0 /\ k[2] < height

\* C7: width and height never decrease, whatever operation touches the grid
\* (expand, expandGrid, buyGridExpansion, loading a save).
C7_DimensionsOnlyGrow ==
    [][ width' >= width /\ height' >= height ]_vars

\* C8: expand with a smaller width or height returns false, emits nothing
\* and leaves width, height, cells and history unchanged; otherwise it
\* returns true, sets the dimensions to its arguments, keeps every filled
\* cell and leaves the history empty, so that an undo right after it returns
\* false.
C8_ExpandAllOrNothing ==
    [][ /\ op'.name = "expandGrid" =>
            IF op'.newWidth < width \/ op'.newHeight < height
            THEN ~ret' /\ events' = <<>> /\ UNCHANGED gridVars
            ELSE /\ ret'
                 /\ width' = op'.newWidth
                 /\ height' = op'.newHeight
                 /\ cells' = cells
                 /\ history' = <<>>
        /\ (op.name = "expandGrid" /\ ret /\ op'.name = "undo")
              => (~ret' /\ cells' = cells) ]_vars

C8_Witness ==
    /\ op.name = "expandGrid"
    /\ ret
    /\ op.before > 0
    /\ DOMAIN cells # {}
    /\ width = 6
    /\ height = 6
    /\ history = <<>>

\* C9: after clear the grid has no filled cells and no history, from any
\* state; gridCleared is emitted only when the grid was not already empty.
C9_ClearLeavesNothing ==
    [][ op'.name = "clear" =>
          /\ DOMAIN cells' = {}
          /\ history' = <<>>
          /\ HasEvent(events', "gridCleared") => DOMAIN cells # {} ]_vars

\* C10: money is a non-negative integer; addMoney and spendMoney reject
\* amounts <= 0 (spendMoney also amounts above the balance) and otherwise
\* change money by exactly +amount / -amount; money changes in no other way
\* than through these two operations (each reports its delta in moneyChanged).
C10_MoneyOnlyByAddAndSpend ==
    [][ /\ money' \in Nat
        /\ money' = money + SumDeltas(events')
        /\ op'.name = "addMoney" =>
              IF op'.amount <= 0
              THEN ~ret' /\ money' = money
              ELSE ret' /\ money' = money + op'.amount
        /\ op'.name = "spendMoney" =>
              IF op'.amount <= 0 \/ money < op'.amount
              THEN ~ret' /\ money' = money
              ELSE ret' /\ money' = money - op'.amount ]_vars

\* C11: unlockedColors always contains 'black' and 'white' and selectedColor
\* is always one of unlockedColors; selectColor of a colour that is not
\* unlocked returns false and leaves selectedColor unchanged; unlockColor of
\* an unlocked colour returns false and changes nothing.
C11_ColoursValid ==
    [][ /\ {"black", "white"} \subseteq unlockedColors'
        /\ selectedColor' \in unlockedColors'
        /\ (op'.name = "selectColor" /\ op'.colorId \notin unlockedColors)
              => (~ret' /\ selectedColor' = selectedColor)
        /\ (op'.name = "unlockColor" /\ op'.colorId \in unlockedColors)
              => (~ret' /\ UNCHANGED <<gridVars, stateVars>>) ]_vars

\* C12: acceptContract while a contract is active returns failure and leaves
\* the active contract, the grid and money unchanged; abandonContract with no
\* active contract returns failure and changes nothing; a successful
\* abandonContract sets activeContract to null, pays no reward and does not
\* increment completedContracts.
C12_OneContractAtATime ==
    [][ /\ (op'.name = "acceptContract" /\ activeContract # NoContract)
              => /\ ~ret'
                 /\ activeContract' = activeContract
                 /\ UNCHANGED gridVars
                 /\ money' = money
        /\ (op'.name = "abandonContract" /\ activeContract = NoContract)
              => (~ret' /\ events' = <<>> /\ UNCHANGED <<gridVars, stateVars>>)
        /\ (op'.name = "abandonContract" /\ activeContract # NoContract)
              => /\ ret'
                 /\ activeContract' = NoContract
                 /\ money' = money
                 /\ ~HasEvent(events', "moneyChanged")
                 /\ completedContracts' = completedContracts
                 /\ stats' = stats ]_vars

\* an acceptContract was refused while a contract with painted cells is active
C12_Witness ==
    /\ op.name = "acceptContract"
    /\ ~ret
    /\ activeContract # NoContract
    /\ DOMAIN cells # {}
    /\ cells = preCells

\* C13: right after a contract starts (a successful acceptContract),
\* completes, or is abandoned, the grid has no filled cell.
C13_GridEmptyAtContractBoundary ==
    [][ (\/ op'.name = "acceptContract" /\ ret'
         \/ HasEvent(events', "contractStarted")
         \/ HasEvent(events', "contractCompleted")
         \/ op'.name = "abandonContract" /\ ret'
         \/ HasEvent(events', "contractCleared"))
            => DOMAIN cells' = {} ]_vars

\* a contract was accepted on a grid that had painted cells
C13_Witness ==
    /\ op.name = "acceptContract"
    /\ ret
    /\ activeContract # NoContract
    /\ DOMAIN preCells # {}
    /\ DOMAIN cells = {}

\* C19: buyGridExpansion fails with no state change when gridLevel is the
\* last tier or money is below the next tier's cost; whenever it reports
\* success, money has gone down by exactly that cost, gridLevel has gone up
\* by exactly 1 and width and height both equal the new tier's size.
C19_ExpansionAtomic ==
    [][ op'.name = "buyGridExpansion" =>
          LET next == getNextGridExpansion(gridLevel)
          IN IF next = None \/ money < next[1].cost
             THEN ~ret' /\ UNCHANGED <<gridVars, stateVars>>
             ELSE /\ ret'
                  /\ money' = money - next[1].cost
                  /\ gridLevel' = gridLevel + 1
                  /\ width' = next[1].size
                  /\ height' = next[1].size ]_vars

\* C20: buyColor fails with no state change when the colour is unlocked
\* already or money is below its catalog cost; on success money goes down by
\* exactly that cost and the colour joins unlockedColors.
C20_BuyColorAllOrNothing ==
    [][ op'.name = "buyColor" =>
          IF op'.colorId \in unlockedColors \/ money < getColorPrice(op'.colorId)
          THEN ~ret' /\ events' = <<>> /\ UNCHANGED <<gridVars, stateVars>>
          ELSE /\ ret'
               /\ money' = money - getColorPrice(op'.colorId)
               /\ unlockedColors' = unlockedColors \cup {op'.colorId}
               /\ UNCHANGED <<gridVars, gridLevel, selectedColor, upgrades,
                              automationEnabled, activeContract,
                              completedContracts, stats>> ]_vars

\* red was bought at its cost of 50 out of a balance of 100
C20_Witness ==
    /\ op.name = "buyColor"
    /\ op.colorId = "red"
    /\ ret
    /\ money = 50
    /\ "red" \in unlockedColors
    /\ SumDeltas(events) = -50

\* C14: under the snapshot of every reachable state, a rank that is not
\* accessible has no accessible rank above it, the levels getAvailableRanks
\* returns are exactly 1..getHighestAccessibleRank(), and
\* getHighestAccessibleRank() is at least 1.
C14_AvailableIsPrefix ==
    LET access(level) == canAccessRank(getRank(level), completedContracts,
                                       gridSizeOf(Cur), unlockedColors)
        available == getAvailableRanks(Cur)
    IN /\ \A n \in 1..getMaxRank : ~access(n) =>
              \A k \in (n + 1)..getMaxRank : ~access(k)
       /\ {available[i].level : i \in 1..Len(available)}
              = 1..getHighestAccessibleRank(Cur)
       /\ getHighestAccessibleRank(Cur) >= 1

\* C16: a request for a rank that is not accessible, a level outside the rank
\* catalog included, produces no contract and changes nothing; a contract that
\* is produced carries the requested level as its rankLevel.
C16_GenerateOnlyAccessible ==
    [][ (op'.name = "acceptContract" /\ activeContract = NoContract) =>
          LET level == IF op'.rankLevel = 0 THEN getHighestAccessibleRank(Cur)
                       ELSE op'.rankLevel
              accessible ==
                  /\ \E i \in 1..Len(RANKS) : RANKS[i].level = level
                  /\ \E i \in 1..Len(RANKS) :
                        /\ RANKS[i].level = level
                        /\ canAccessRank(RANKS[i], completedContracts,
                                         gridSizeOf(Cur), unlockedColors)
          IN /\ ~accessible =>
                   (~ret' /\ activeContract' = NoContract /\ UNCHANGED gridVars)
             /\ ret' => activeContract'.rankLevel = level ]_vars

C18_RewardFormula ==
    [][ /\ (op'.name = "acceptContract" /\ ret') =>
              LET contract == activeContract'
                  rank == getRank(contract.rankLevel)
                  coloured == {yx \in (1..height) \X (1..width) :
                                  contract.pattern[yx[1]][yx[2]] # NULL}
                  boost100 == 100 + 15 * getUpgradeLevel(Cur, "money_boost")
              IN /\ contract.cellCount = Cardinality(coloured)
                 /\ contract.reward \in Nat
                 /\ contract.reward >= 1
                 /\ contract.reward =
                       Max(1, (getBaseReward(rank.patternComplexity)
                               * rank.rewardMultiplier10 * boost100
                               * contract.cellCount) \div 4000)
        /\ HasEvent(events', "contractCompleted") =>
              money' = money + activeContract.reward ]_vars

\* C15: no command lowers rank accessibility: a step that raises
\* completedContracts, enlarges the grid or unlocks a colour, the rest of the
\* snapshot fixed, keeps every accessible rank accessible and does not lower
\* getHighestAccessibleRank(); so the highest accessible rank never decreases.
C15_AccessMonotone ==
    [][ /\ completedContracts' >= completedContracts
        /\ gridSizeOf(Cur') >= gridSizeOf(Cur)
        /\ unlockedColors \subseteq unlockedColors'
        /\ \A i \in 1..Len(RANKS) :
              canAccessRank(RANKS[i], completedContracts, gridSizeOf(Cur),
                            unlockedColors)
                 => canAccessRank(RANKS[i], completedContracts', gridSizeOf(Cur'),
                                  unlockedColors')
        /\ getHighestAccessibleRank(Cur') >= getHighestAccessibleRank(Cur) ]_vars

\* the eighteenth completion on a 6x6 grid with red unlocked opens rank 4
C15_Witness ==
    /\ op.name = "setCells"
    /\ HasEvent(events, "contractCompleted")
    /\ completedContracts = 18
    /\ getHighestAccessibleRank(Cur) = 4

\* floor(baseCost * (costMultiplier10 / 10)^level) in whole-number arithmetic
RECURSIVE TimesPow(_, _, _)
TimesPow(m, d, n) ==
    IF n = 0 \/ m = <<>> THEN m ELSE TimesPow(MulLimb(m, d, 1, 0), d, n - 1)
RECURSIVE OverPow(_, _, _)
OverPow(m, d, n) ==
    IF n = 0 \/ m = <<>> THEN m
    ELSE OverPow(Trim(DivFrom(m, d, Len(m), 0).q), d, n - 1)
StatedPrice(cfg, level) ==
    ToInt(OverPow(TimesPow(Limbs(cfg.baseCost), cfg.costMultiplier10, level),
                  10, level))
StatedConfig(id) ==
    IF id \in {"auto_painter_black", "auto_painter_red", "auto_painter_gold"}
    THEN AUTO_PAINTER_CONFIG ELSE UPGRADES[id]

\* C21: buyUpgrade fails and changes nothing when the id is unknown, the
\* painter's colour is locked, the level is at maxLevel or money is below
\* floor(baseCost * costMultiplier^level); otherwise it takes exactly that
\* price and raises the level by exactly 1; no level exceeds its maxLevel.
C21_BuyUpgradeAllOrNothing ==
    [][ op'.name = "buyUpgrade" =>
          LET id == op'.upgradeId
              painter == id \in {"auto_painter_black", "auto_painter_red",
                                 "auto_painter_gold"}
              colorId == CASE id = "auto_painter_black" -> "black"
                           [] id = "auto_painter_red" -> "red"
                           [] OTHER -> "gold"
              level == getUpgradeLevel(Cur, id)
              refused ==
                  \/ ~painter /\ id \notin DOMAIN UPGRADES
                  \/ painter /\ colorId \notin unlockedColors
                  \/ level >= StatedConfig(id).maxLevel
                  \/ money < StatedPrice(StatedConfig(id), level)
          IN IF refused
             THEN ~ret' /\ events' = <<>> /\ UNCHANGED <<gridVars, stateVars>>
             ELSE /\ ret'
                  /\ money' = money - StatedPrice(StatedConfig(id), level)
                  /\ getUpgradeLevel(Cur', id) = level + 1
                  /\ level + 1 <= StatedConfig(id).maxLevel
                  /\ \A i \in 1..Len(upgrades) : upgrades'[i].id # id =>
                        upgrades'[i] = upgrades[i]
                  /\ UNCHANGED <<gridVars, gridLevel, unlockedColors, selectedColor,
                                 activeContract, completedContracts, stats>> ]_vars

\* the fifth level of the black auto-painter bought, and a sixth refused
C21_Witness ==
    /\ op.name = "buyUpgrade"
    /\ op.upgradeId = "auto_painter_black"
    /\ ~ret
    /\ getUpgradeLevel(Cur, "auto_painter_black") = 5
    /\ money = 50000000 - 987

\* C22: the price of each next level is strictly above the price of the level
\* before it when costMultiplier > 1, and equal to it when costMultiplier = 1,
\* for every level up to maxLevel.
C22_CostIncreasing ==
    \A i \in 1..Len(upgrades) :
        LET id == upgrades[i].id
            level == upgrades[i].level
        IN (level >= 1 /\ level <= StatedConfig(id).maxLevel) =>
              IF StatedConfig(id).costMultiplier10 > 10
              THEN getUpgradeCost(id, level) > getUpgradeCost(id, level - 1)
              ELSE getUpgradeCost(id, level) = getUpgradeCost(id, level - 1)

\* money_boost bought to its twentieth level
C22_Witness ==
    /\ getUpgradeLevel(Cur, "money_boost") = 20
    /\ getUpgradeCost("money_boost", 20) = 41943040

\* C23: loading a document that is null or whose version is not 2, 3 or 4
\* returns false, leaves every field of the state unchanged and emits no
\* stateLoaded (nor any other) event.
C23_BadVersionRejected ==
    [][ (/\ op'.name = "importSave"
         /\ (~op'.present \/ op'.version \notin {2, 3, 4})) =>
            /\ ~ret'
            /\ UNCHANGED <<gridVars, stateVars>>
            /\ events' = <<>> ]_vars

\* a version-5 document refused by a game with a painted cell and a contract
C23_Witness ==
    /\ op.name = "importSave"
    /\ op.version = 5
    /\ ~ret
    /\ DOMAIN cells # {}
    /\ activeContract # NoContract

\* C24: a load or import that returns false has applied no part of the
\* document: grid dimensions, cells, history and every progression field are
\* what they were before.
C24_FailedLoadAppliesNothing ==
    [][ (op'.name = "importSave" /\ ~ret') =>
            UNCHANGED <<gridVars, stateVars>> ]_vars

\* C25: a state saved and loaded again, into a new game or into the running
\* one, loads successfully with the same money, grid dimensions and cells,
\* colours, upgrades, automation flags, gridLevel, completedContracts and
\* activeContract.
C25_RoundTrip ==
    [][ op'.name \in {"saveAndReload", "saveAndLoad"} =>
            /\ ret'
            /\ UNCHANGED <<width, height, cells, stateVars>> ]_vars

\* a reload of a 6x6 game with a painted cell, a contract and an upgrade
C25_Witness ==
    /\ op.name = "saveAndReload"
    /\ ret
    /\ width = 6
    /\ DOMAIN cells # {}
    /\ activeContract # NoContract
    /\ upgrades # <<>>

\* the Number a is n / 2
IsHalves(a, n) ==
    LET lo == Min(a.e, -1)
    IN ShiftLeft(a.m, a.e - lo) = ShiftLeft(Limbs(n), -1 - lo)
\* twice max(200, 5000 x max(0.2, 1 - 0.15 x level) x max(0.1, 1 - 0.25 x boost)),
\* in whole numbers
StatedIntervalTwice(level, boost) ==
    Max(400, Max(20, 100 - 15 * level) * Max(10, 100 - 25 * boost))

\* C26: for the levels owned of the black painter and of speed_boost,
\* getInterval is max(200, 5000 x max(0.2, 1 - 0.15 x level) x
\* max(0.1, 1 - 0.25 x speedBoostLevel)): 5000 with neither, never below 200,
\* and not above the interval one painter level or one speed_boost level lower.
C26_IntervalFormula ==
    LET level == getUpgradeLevel(Cur, "auto_painter_black")
        boost == getUpgradeLevel(Cur, "speed_boost")
        interval == getInterval(Cur, "auto_painter_black")
    IN /\ IsHalves(interval, StatedIntervalTwice(level, boost))
       /\ FLeq(FromNat(200), interval)
       /\ (level = 0 /\ boost = 0) => IsHalves(interval, 10000)
       /\ level > 0 => FLeq(interval, IntervalOf(level - 1, boost))
       /\ boost > 0 => FLeq(interval, IntervalOf(level, boost - 1))

\* the painter at level 5 with speed_boost at level 10: the product is 125
\* and the interval is the minimum, 200
C26_Witness ==
    /\ getUpgradeLevel(Cur, "auto_painter_black") = 5
    /\ getUpgradeLevel(Cur, "speed_boost") = 10
    /\ op.name = "buyUpgrade"
    /\ IsHalves(getInterval(Cur, "auto_painter_black"), 400)
\* the painter of a colour among the upgrades owned
PainterOf(c) ==
    CHOOSE id \in {upgrades[i].id : i \in 1..Len(upgrades)} :
        getAutoPainterColor(id) = c
\* a cellChanged event among evs painting cell with colour c
PaintedEvent(evs, cell, c) ==
    \E i \in 1..Len(evs) :
        /\ evs[i].name = "cellChanged"
        /\ <<evs[i].x, evs[i].y>> = cell
        /\ evs[i].color = c

\* C27: a painter that has work (timer running, master switch on, painter
\* owned, contract expecting its colour at a cell that lacks it) and is not
\* disturbed by manual edits has had its first cell in row-major order to
\* paint for no longer than getInterval plus one poll period of 100 ms; and
\* the cell a firing of the timer paints for a colour is that first cell.
C27_BoundedResponse ==
    /\ [](\A c \in DOMAIN waiting :
            \/ now - waiting[c].since <= PollPeriod
            \/ FLeq(FromNat(now - waiting[c].since - PollPeriod),
                    getInterval(Cur, PainterOf(c))))
    /\ [][op'.name = "timerTick" =>
            \A c \in op'.painted :
                /\ c \in DOMAIN waiting
                /\ PaintedEvent(events', waiting[c].cell, c)
                /\ activeContract' # NoContract =>
                       StoredAt(cells', waiting[c].cell) = c]_vars

\* the second cell of a line is painted after the first, one interval (of
\* 312.5 ms, noticed at the next poll) later
C27_Witness ==
    /\ op.name = "timerTick"
    /\ "black" \in op.painted
    /\ PaintedEvent(events, <<1, 0>>, "black")
    /\ getUpgradeLevel(Cur, "speed_boost") = 3
    /\ activeContract # NoContract
    /\ StoredAt(cells, <<0, 0>>) = "black"
    /\ lastPaintTime["black"] >= 400
\* C29: with auto_start_contract owned and enabled, the callback registered
\* at the completion of a contract of rank R, running 500 ms later with no
\* contract accepted in between, starts a contract of rank R.
C29_AutoStartSameRank ==
    [][(op'.name = "autoStart" /\ ~op'.other) =>
           /\ ret'
           /\ activeContract' # NoContract
           /\ activeContract'.rankLevel = op'.rank]_vars
\* the intervals of a kind in the browser's table
TimersOf(tab, kind) == {id \in DOMAIN tab : tab[id].kind = kind}

\* C28: at most one automation timer and at most one autosave timer exist;
\* neither an automation tick nor an autosave fires while the page is hidden;
\* and once the page is shown again both timers run, provided they ran when
\* it was hidden.
C28_TimersFollowVisibility ==
    /\ [](Cardinality(TimersOf(timers, "tick")) <= 1
          /\ Cardinality(TimersOf(timers, "save")) <= 1)
    /\ [][op'.name \in {"timerTick", "autoSave"} => ~hidden]_vars
    /\ [][op'.name = "show" =>
            /\ TimersOf(timers', "tick") # {}
            /\ TimersOf(timers, "save") # {} => TimersOf(timers', "save") # {}]_vars
\* C30: with level L of undo_buffer owned the history holds up to
\* 50 + 20 x L edits: an edit made while it holds fewer is kept together with
\* all those before it.
C30_MemoryCapacity ==
    [][(op'.name = "setCell" /\ ret'
        /\ Len(history) < 50 + 20 * getUpgradeLevel(Cur, "undo_buffer"))
       => Len(history') = Len(history) + 1]_vars
\* C31: a tick of the automation timer that finds no active contract, or the
\* master switch 'auto_painters' set to false, changes no cell, no history
\* entry, no last-paint time and no money; and as long as the switch was never
\* set it reports enabled, whatever upgrades are owned.
SwitchedOff ==
    /\ "auto_painters" \in DOMAIN automationEnabled
    /\ automationEnabled["auto_painters"] = FALSE
C31_IdleTickChangesNothing ==
    /\ [][(op'.name = "timerTick" /\ (activeContract = NoContract \/ SwitchedOff))
            => UNCHANGED <<cells, history, lastPaintTime, money>>]_vars
    /\ [](Untoggled => isAutomationEnabled(Cur, "auto_painters"))
\* a tick has run with the switch off while a painter had a cell to paint
C31_Witness ==
    /\ op.name = "timerTick"
    /\ SwitchedOff
    /\ activeContract # NoContract
    /\ \E i \in 1..Len(upgrades) :
          /\ getAutoPainterColor(upgrades[i].id) # NULL
          /\ PaintTargets(Cur.grid, activeContract.pattern,
                          getAutoPainterColor(upgrades[i].id)) # {}
C31_WitnessNoUpgrade ==
    /\ op.name = "timerTick"
    /\ upgrades = <<>>
    /\ activeContract = NoContract
    /\ isAutomationEnabled(Cur, "auto_painters")

\* C32: a painter that paints during a tick paints exactly one cell, the first
\* coordinate in row-major order where the pattern expects its colour and the
\* grid cell differs; the paint is a Grid.setCell: one cellChanged event and
\* completion evaluated as after a manual edit; unless the tick completes the
\* contract (which clears grid and history) it leaves one history entry per
\* paint, and an undo() right after the tick restores the cell painted last.
PaintsOf(evs, c) ==
    {i \in 1..Len(evs) : evs[i].name = "cellChanged" /\ evs[i].color = c}
PaintedCells == {RowMajorFirst(Cur.grid, activeContract.pattern, c) : c \in op'.painted}
\* the paint of colour c is the last but (painted colours - 1) at most entry of
\* the history after the tick, and the cell holds c
C32_Recorded(c) ==
    LET first == RowMajorFirst(Cur.grid, activeContract.pattern, c)
    IN /\ StoredAt(cells', first) = c
       /\ \E j \in 1..Len(history') :
             /\ j > Len(history') - Cardinality(op'.painted)
             /\ history'[j] = [x |-> first[1], y |-> first[2],
                               oldColor |-> StoredAt(cells, first),
                               newColor |-> c]
\* as stated: every paint leaves its history entry, to be undone
C32_EveryPaintRecorded ==
    [][(op'.name = "timerTick" /\ op'.painted # {})
          => \A c \in op'.painted : C32_Recorded(c)]_vars
C32_TickPaint ==
    /\ op'.name = "timerTick"
    /\ op'.painted # {}
    /\ \A c \in op'.painted :
          LET first == RowMajorFirst(Cur.grid, activeContract.pattern, c)
          IN /\ Cardinality(PaintsOf(events', c)) = 1
             /\ \A i \in PaintsOf(events', c) :
                   /\ <<events'[i].x, events'[i].y>> = first
                   /\ events'[i].oldColor = StoredAt(cells, first)
             /\ PatternAt(activeContract.pattern, first[1], first[2]) = c
             /\ StoredAt(cells, first) # c
             /\ activeContract' # NoContract => C32_Recorded(c)
C32_TickFrame ==
    (op'.name = "timerTick" /\ activeContract' # NoContract) =>
        /\ \A k \in DOMAIN cells \cup DOMAIN cells' :
              StoredAt(cells', k) # StoredAt(cells, k) => k \in PaintedCells
        /\ Len(history') = Min(maxHistory, Len(history) + Cardinality(op'.painted))
        /\ ~ExactMatch([width |-> width', height |-> height', cells |-> cells',
                        history |-> history'], activeContract'.pattern)
C32_TickCompletes ==
    (op'.name = "timerTick" /\ activeContract # NoContract
        /\ activeContract' = NoContract) =>
        /\ op'.painted # {}
        /\ CountEvent(events', "contractCompleted") = 1
        /\ money' = money + activeContract.reward
        /\ cells' = EmptyCells
        /\ history' = <<>>
C32_UndoReverts ==
    (op.name = "timerTick" /\ op.painted # {} /\ history # <<>>
        /\ op'.name = "undo") =>
        /\ ret'
        /\ Last(history).newColor \in op.painted
        /\ StoredAt(cells', <<Last(history).x, Last(history).y>>) = Last(history).oldColor
        /\ \A k \in DOMAIN cells \cup DOMAIN cells' :
              k # <<Last(history).x, Last(history).y>> =>
                  StoredAt(cells', k) = StoredAt(cells, k)
        /\ history' = Front(history)
C32_PaintIsSetCell ==
    /\ [][(op'.name = "timerTick" /\ op'.painted # {}) => C32_TickPaint]_vars
    /\ [][C32_TickFrame]_vars
    /\ [][C32_TickCompletes]_vars
    /\ [][C32_UndoReverts]_vars
\* a painter's cell has been undone: the grid is as before the paint
C32_Witness ==
    /\ op.name = "undo"
    /\ ret
    /\ activeContract # NoContract
    /\ \E c \in {"black", "white"} :
          PaintTargets(Cur.grid, activeContract.pattern, c) # {}

\* C33: in a tick every painter paints at most one cell; a painter that paints
\* and has painted before does so at least its interval (as getInterval gives
\* it at this tick) after its previous paint; the last-paint time of a painter
\* becomes the time of the tick when it paints and is left as it is when it
\* does not; and an owned painter whose interval has elapsed paints in every
\* tick that finds the switch on and a cell for it.
OwnedColors ==
    {getAutoPainterColor(upgrades[i].id) : i \in 1..Len(upgrades)} \ {NULL}
C33_Tick ==
    op'.name = "timerTick" =>
        /\ op'.painted \subseteq OwnedColors
        /\ \A c \in {"black", "white", "red", "gold"} :
              /\ Cardinality(PaintsOf(events', c)) <= 1
              /\ (PaintsOf(events', c) # {}) <=> (c \in op'.painted)
              /\ (c \in op'.painted /\ c \in DOMAIN lastPaintTime) =>
                    FLeq(getInterval(Cur, PainterOf(c)),
                         FromNat(now - lastPaintTime[c]))
              /\ c \in op'.painted =>
                    (c \in DOMAIN lastPaintTime' /\ lastPaintTime'[c] = now)
              /\ c \notin op'.painted =>
                    /\ (c \in DOMAIN lastPaintTime') <=> (c \in DOMAIN lastPaintTime)
                    /\ c \in DOMAIN lastPaintTime => lastPaintTime'[c] = lastPaintTime[c]
              /\ (/\ c \in OwnedColors
                  /\ activeContract # NoContract
                  /\ isAutomationEnabled(Cur, "auto_painters")
                  /\ PaintTargets(Cur.grid, activeContract.pattern, c) # {}
                  /\ c \in DOMAIN lastPaintTime =>
                        FLeq(getInterval(Cur, PainterOf(c)),
                             FromNat(now - lastPaintTime[c])))
                    => c \in op'.painted
C33_RateLimit == [][C33_Tick]_vars
\* the black painter has painted its second cell (which completed the line),
\* while the white one, owned as well, has never found a cell and has no
\* last-paint time
C33_Witness ==
    /\ op.name = "timerTick"
    /\ op.painted = {"black"}
    /\ StoredAt(preCells, <<0, 0>>) = "black"
    /\ PaintedEvent(events, <<1, 0>>, "black")
    /\ "white" \in OwnedColors
    /\ "white" \notin DOMAIN lastPaintTime

\* C38: every cell a tick writes held a colour other than the one the pattern
\* expects there, is one where the pattern expects a colour, and receives
\* that colour; so unless the tick completes the contract, the cells that
\* match the pattern's colours after it include those before it and the
\* cells filled where the pattern expects none are the same.
MatchingCells(c, w, h, pattern) ==
    {xy \in (0..(w - 1)) \X (0..(h - 1)) :
        /\ PatternAt(pattern, xy[1], xy[2]) # NULL
        /\ StoredAt(c, xy) = PatternAt(pattern, xy[1], xy[2])}
WronglyFilled(c, w, h, pattern) ==
    {xy \in (0..(w - 1)) \X (0..(h - 1)) :
        /\ PatternAt(pattern, xy[1], xy[2]) = NULL
        /\ StoredAt(c, xy) # NULL}
C38_Tick ==
    op'.name = "timerTick" =>
        /\ \A i \in 1..Len(events') :
              events'[i].name = "cellChanged" =>
                 LET expected == PatternAt(activeContract.pattern,
                                           events'[i].x, events'[i].y)
                 IN /\ expected # NULL
                    /\ events'[i].color = expected
                    /\ events'[i].oldColor # expected
                    /\ StoredAt(cells, <<events'[i].x, events'[i].y>>) # expected
        /\ activeContract' # NoContract =>
              /\ activeContract' = activeContract
              /\ MatchingCells(cells, width, height, activeContract.pattern)
                    \subseteq MatchingCells(cells', width', height', activeContract.pattern)
              /\ Cardinality(MatchingCells(cells', width', height', activeContract.pattern))
                    = Cardinality(MatchingCells(cells, width, height, activeContract.pattern))
                      + Cardinality(op'.painted)
              /\ WronglyFilled(cells', width', height', activeContract.pattern)
                    = WronglyFilled(cells, width, height, activeContract.pattern)
C38_NeverWorse == [][C38_Tick]_vars
\* a painter has painted while a cell is filled where the pattern expects
\* none; the contract stays active
C38_Witness ==
    /\ op.name = "timerTick"
    /\ op.painted # {}
    /\ activeContract # NoContract
    /\ WronglyFilled(cells, width, height, activeContract.pattern) # {}
\* a painter has painted over the wrong colour the player had put in a cell
C38_WitnessRepaint ==
    /\ op.name = "timerTick"
    /\ \E i \in 1..Len(events) :
          events[i].name = "cellChanged" /\ events[i].oldColor # NULL

\* C39: a tick in which a paint completes the contract ends with no active
\* contract and an empty grid, the reward added to the money once, one
\* contractCompleted event and no cell written after it: the painters the
\* loop visits after the completing one paint nothing.
C39_Tick ==
    (op'.name = "timerTick" /\ HasEvent(events', "contractCompleted")) =>
        /\ activeContract # NoContract
        /\ activeContract' = NoContract
        /\ cells' = EmptyCells
        /\ CountEvent(events', "contractCompleted") = 1
        /\ money' = money + activeContract.reward
        /\ completedContracts' = completedContracts + 1
        /\ \A i, j \in 1..Len(events') :
              (events'[i].name = "contractCompleted" /\ j > i) =>
                  events'[j].name # "cellChanged"
        /\ \A c \in OwnedColors \ op'.painted :
              /\ (c \in DOMAIN lastPaintTime') <=> (c \in DOMAIN lastPaintTime)
              /\ c \in DOMAIN lastPaintTime => lastPaintTime'[c] = lastPaintTime[c]
C39_CompletingTick == [][C39_Tick]_vars
\* the black painter has completed the mixed contract in a tick whose loop
\* went on to the white painter, due as well (its pattern cell had been
\* painted 200 ms earlier)
C39_Witness ==
    /\ op.name = "timerTick"
    /\ HasEvent(events, "contractCompleted")
    /\ op.painted = {"black"}
    /\ \E i, j \in 1..Len(upgrades) :
          /\ i < j
          /\ upgrades[i].id = "auto_painter_black"
          /\ upgrades[j].id = "auto_painter_white"
    /\ "white" \in DOMAIN lastPaintTime
    /\ FLeq(getInterval(Cur, "auto_painter_white"),
            FromNat(now - lastPaintTime["white"]))
    /\ \E i \in 1..Len(events) :
          /\ events[i].name = "contractCompleted"
          /\ \E x \in 0..(StartSize - 1) :
                PatternAt(events[i].contract.pattern, x, 0) = "white"

\* C36: a contract installed by acceptContract has at least one coloured
\* pattern cell and its cellCount is at least 1, so the empty grid it starts
\* with does not already match it.
C36_ContractNotEmpty ==
    activeContract # NoContract =>
        /\ activeContract.cellCount >= 1
        /\ countPatternCells(activeContract.pattern) >= 1
        /\ ~ExactMatch([width |-> width, height |-> height, cells |-> EmptyCells,
                        history |-> <<>>], activeContract.pattern)

\* C34: with a contract active getProgress() returns correct = the number of
\* grid cells that hold the colour the pattern expects, wrong = the number of
\* grid cells filled where the pattern expects none, total = cellCount and
\* percent = 100 * correct / total rounded to the nearest whole number
\* (halves up; 0 when total is 0), with correct <= total; without a contract
\* it returns null.
RoundedPercent(correct, total) ==
    IF total = 0 THEN 0 ELSE (200 * correct + total) \div (2 * total)
C34_Counts ==
    activeContract # NoContract =>
        LET p == getProgress(Cur)[1]
        IN /\ p.correct = Cardinality(MatchingCells(cells, width, height,
                                                    activeContract.pattern))
           /\ p.wrong = Cardinality(WronglyFilled(cells, width, height,
                                                  activeContract.pattern))
           /\ p.total = activeContract.cellCount
           /\ p.correct <= p.total
C34_Percent ==
    activeContract # NoContract =>
        LET p == getProgress(Cur)[1]
        IN p.percent = RoundedPercent(p.correct, p.total)
C34_ProgressAsStated ==
    /\ activeContract = NoContract => getProgress(Cur) = None
    /\ C34_Counts
    /\ C34_Percent

\* C35: in every state with an active contract, also after the grid was
\* expanded under it, the condition checkContractCompletion completes on (every
\* grid cell equals the pattern's entry, cells beyond the pattern empty) holds
\* exactly when getProgress() reports correct = total and wrong = 0.
C35_ProgressAgreesWithCompletion ==
    activeContract # NoContract =>
        LET p == getProgress(Cur)[1]
        IN AllMatch(Cur.grid, activeContract.pattern)
              <=> (p.correct = p.total /\ p.wrong = 0)

\* C40: every unlocked colour is an entry of the colour catalog; a buyColor
\* that succeeds is for a catalog colour of positive cost and lowers the money
\* by that cost; a buyColor for an id outside the catalog fails and unlocks
\* nothing.
C40_NoFreeColour ==
    /\ [](unlockedColors \subseteq DOMAIN COLORS)
    /\ [][(op'.name = "buyColor" /\ ret') =>
             /\ op'.colorId \in DOMAIN COLORS
             /\ getColorPrice(op'.colorId) > 0
             /\ money' = money - getColorPrice(op'.colorId)]_vars
    /\ [][(op'.name = "buyColor" /\ op'.colorId \notin DOMAIN COLORS) =>
             (~ret' /\ unlockedColors' = unlockedColors)]_vars

\* C37: whenever a contract is active, the automation timer runs, the master
\* switch is on and every colour of the pattern has an owned painter, and
\* from then on only the timer acts, the contract is eventually completed and
\* its reward paid -- provided no cell is filled where the pattern expects
\* none (a painter never erases).
PatternColours(pattern) ==
    {pattern[y][x] : y \in 1..Len(pattern), x \in 1..Len(pattern[1])} \ {NULL}
PaintersCover ==
    /\ activeContract # NoContract
    /\ \E id \in DOMAIN timers : timers[id].kind = "tick"
    /\ isAutomationEnabled(Cur, "auto_painters")
    /\ PatternColours(activeContract.pattern) \subseteq OwnedColors
RewardPaid ==
    /\ op.name = "timerTick"
    /\ activeContract = NoContract
    /\ \E i \in 1..Len(events) :
          /\ events[i].name = "contractCompleted"
          /\ SumDeltas(events) = events[i].contract.reward
====
